---- MODULE Spec2Model ----
(***************************************************************************)
(* Model of the macro subsystem of Edge_Optimizer_V2:                      *)
(*   crates/macro/src/main.rs            MacroAppState                     *)
(*   crates/macro/src/ipc_handler.rs     process_message (IPC thread)      *)
(*   crates/macro/src/hotkey_manager.rs  run_hotkey_loop (dispatch loop)   *)
(*   crates/macro/src/executor.rs        MacroExecutor                     *)
(*   crates/core/src/macro_config.rs     the macro data types              *)
(*   crates/core/src/input_recorder.rs   InputRecorder (recording session) *)
(*   crates/macro/src/input_hooks/       the low-level hook module         *)
(*   crates/core/src/gui/macro_editor.rs MacroEditorState (macro editor)   *)
(*   crates/core/src/gui/mod.rs          the settings window's handlers    *)
(*   crates/macro/src/input_hooks/input_listener.rs  InputListener         *)
(***************************************************************************)
EXTENDS Integers, Sequences, FiniteSets, TLC

\* ------------------------------------------------------------------ bounds
\* Longest MacroConfig.macros list an IPC ConfigUpdated message carries.
MaxMacros == 2
\* Most hotkey events waiting in the GlobalHotKeyEvent channel.
MaxQueue == 2
\* Largest repeat count n of CycleMode::Count(n) drawn for the executor.
MaxCount == 3

\* Most listener threads the recording session spawns (start_recording calls
\* that start a session).
MaxStarts == 2
\* Most key events the recorder's hooks capture.
MaxKeys == 2
\* Longest raw action sequence optimize_actions is applied to on its own.
MaxRaw == 4

\* Most hooks per kind install_keyboard_hook / install_mouse_hook install.
MaxInstalls == 2
\* ListenerConfig.buffer_size the hook module's channels are created with.
BufferSize == 1

\* Most macros the editor holds.
MaxEditorMacros == 2
\* Most actions a macro of the editor holds.
MaxActions == 3
\* Most actions one recording session delivers to the editor.
MaxRecorded == 2

\* The name length MacroDefinition::validate accepts at most.
NAME_LEN_LIMIT == 50

\* Latest time, in ms after the listener thread's start, the clock reaches.
MaxClock == 22


\* Most messages waiting in the queue of the InputListener's thread.
MaxMsgs == 2
\* Option::None of a key lookup.
None == "None"

\* ------------------------------------------------------- key-name tables
Letters ==
    <<"A", "B", "C", "D", "E", "F", "G", "H", "I", "J", "K", "L", "M",
      "N", "O", "P", "Q", "R", "S", "T", "U", "V", "W", "X", "Y", "Z">>

LowerLetters ==
    <<"a", "b", "c", "d", "e", "f", "g", "h", "i", "j", "k", "l", "m",
      "n", "o", "p", "q", "r", "s", "t", "u", "v", "w", "x", "y", "z">>

Digits == <<"0", "1", "2", "3", "4", "5", "6", "7", "8", "9">>

FunctionKeys ==
    <<"F1", "F2", "F3", "F4", "F5", "F6", "F7", "F8", "F9", "F10", "F11", "F12">>

\* Lower- and mixed-case spellings of the multi-character key names, each
\* with its upper-case form (str::to_uppercase on the names the model draws).
UpperWords ==
    <<<<"f1", "F1">>, <<"f12", "F12">>, <<"f13", "F13">>,
      <<"space", "SPACE">>, <<"Space", "SPACE">>,
      <<"enter", "ENTER">>, <<"Enter", "ENTER">>,
      <<"esc", "ESC">>, <<"Esc", "ESC">>, <<"Escape", "ESCAPE">>,
      <<"ctrl", "CTRL">>, <<"Ctrl", "CTRL">>,
      <<"shift", "SHIFT">>, <<"Shift", "SHIFT">>,
      <<"alt", "ALT">>, <<"Alt", "ALT">>>>

IndexOf(seq, x) == CHOOSE i \in 1..Len(seq) : seq[i] = x

InSeq(seq, x) == \E i \in 1..Len(seq) : seq[i] = x

\* key.to_uppercase()
to_uppercase(key) ==
    IF InSeq(LowerLetters, key) THEN Letters[IndexOf(LowerLetters, key)]
    ELSE IF \E i \in 1..Len(UpperWords) : UpperWords[i][1] = key
         THEN UpperWords[CHOOSE i \in 1..Len(UpperWords) : UpperWords[i][1] = key][2]
         ELSE key

KeyCodes ==
    <<"KeyA", "KeyB", "KeyC", "KeyD", "KeyE", "KeyF", "KeyG", "KeyH", "KeyI",
      "KeyJ", "KeyK", "KeyL", "KeyM", "KeyN", "KeyO", "KeyP", "KeyQ", "KeyR",
      "KeyS", "KeyT", "KeyU", "KeyV", "KeyW", "KeyX", "KeyY", "KeyZ">>

DigitCodes ==
    <<"Digit0", "Digit1", "Digit2", "Digit3", "Digit4", "Digit5", "Digit6",
      "Digit7", "Digit8", "Digit9">>

\* string_to_code: key name -> global-hotkey Code, None when unknown.
string_to_code(key) ==
    LET u == to_uppercase(key) IN
    IF InSeq(Letters, u) THEN KeyCodes[IndexOf(Letters, u)]
    ELSE IF InSeq(Digits, u) THEN DigitCodes[IndexOf(Digits, u)]
    ELSE IF InSeq(FunctionKeys, u) THEN u
    ELSE None

UnicodeKeys ==
    <<"Unicode(a)", "Unicode(b)", "Unicode(c)", "Unicode(d)", "Unicode(e)",
      "Unicode(f)", "Unicode(g)", "Unicode(h)", "Unicode(i)", "Unicode(j)",
      "Unicode(k)", "Unicode(l)", "Unicode(m)", "Unicode(n)", "Unicode(o)",
      "Unicode(p)", "Unicode(q)", "Unicode(r)", "Unicode(s)", "Unicode(t)",
      "Unicode(u)", "Unicode(v)", "Unicode(w)", "Unicode(x)", "Unicode(y)",
      "Unicode(z)">>

UnicodeDigits ==
    <<"Unicode(0)", "Unicode(1)", "Unicode(2)", "Unicode(3)", "Unicode(4)",
      "Unicode(5)", "Unicode(6)", "Unicode(7)", "Unicode(8)", "Unicode(9)">>

SpecialKeys ==
    <<<<"SPACE", "Space">>, <<"ENTER", "Return">>, <<"RETURN", "Return">>,
      <<"TAB", "Tab">>, <<"ESCAPE", "Escape">>, <<"ESC", "Escape">>,
      <<"BACKSPACE", "Backspace">>, <<"DELETE", "Delete">>,
      <<"UP", "UpArrow">>, <<"DOWN", "DownArrow">>, <<"LEFT", "LeftArrow">>,
      <<"RIGHT", "RightArrow">>, <<"SHIFT", "Shift">>, <<"CTRL", "Control">>,
      <<"CONTROL", "Control">>, <<"ALT", "Alt">>>>

\* MacroExecutor::string_to_enigo_key: key name -> enigo Key, None when unknown.
string_to_enigo_key(key) ==
    LET u == to_uppercase(key) IN
    IF InSeq(Letters, u) THEN UnicodeKeys[IndexOf(Letters, u)]
    ELSE IF InSeq(Digits, u) THEN UnicodeDigits[IndexOf(Digits, u)]
    ELSE IF InSeq(FunctionKeys, u) THEN u
    ELSE IF \E i \in 1..Len(SpecialKeys) : SpecialKeys[i][1] = u
         THEN SpecialKeys[CHOOSE i \in 1..Len(SpecialKeys) : SpecialKeys[i][1] = u][2]
         ELSE None

\* ---------------------------------------------------------- macro_config
\* MacroShortcut; Option<MacroShortcut> is a sequence of at most one.
Shortcut(ctrl, alt, shift, win, key) ==
    [ctrl |-> ctrl, alt |-> alt, shift |-> shift, win |-> win, key |-> key]

\* MacroShortcut::is_valid
is_valid(sc) ==
    LET has_modifier == sc.ctrl \/ sc.alt \/ sc.shift \/ sc.win
        has_key == sc.key # ""
    IN has_modifier /\ has_key

\* MacroAction variants
KeyPress(key, delay_ms) == [type |-> "KeyPress", key |-> key, delay_ms |-> delay_ms]

KeyRelease(key, delay_ms) == [type |-> "KeyRelease", key |-> key, delay_ms |-> delay_ms]

MouseClick(button, press) == [type |-> "MouseClick", button |-> button, press |-> press]

MouseMove(x, y) == [type |-> "MouseMove", x |-> x, y |-> y]

Delay(ms) == [type |-> "Delay", ms |-> ms]

\* CycleMode variants
Once == [mode |-> "Once"]

Count(times) == [mode |-> "Count", times |-> times]

UntilKeyPressed(stop_key) == [mode |-> "UntilKeyPressed", stop_key |-> stop_key]

\* MacroDefinition
MacroDefinition(name, en, actions, shortcut, cycle_mode) ==
    [name |-> name, enabled |-> en, actions |-> actions,
     shortcut |-> shortcut, cycle_mode |-> cycle_mode]

\* -------------------------------------------------------- hotkey_manager
\* to_hotkey_modifiers: the modifier flags as a global-hotkey Modifiers set.
to_hotkey_modifiers(ctrl, alt, shift, win) ==
    (IF ctrl THEN {"CONTROL"} ELSE {})
    \cup (IF alt THEN {"ALT"} ELSE {})
    \cup (IF shift THEN {"SHIFT"} ELSE {})
    \cup (IF win THEN {"META"} ELSE {})

\* HotKey::new(Some(modifiers), code)
HotKey(modifiers, code) == [mods |-> modifiers, code |-> code]

\* hotkey.id(): the identifier the manager reports in GlobalHotKeyEvent.id;
\* one identifier per (modifiers, code) pair.
HotKeyId(hotkey) == <<hotkey.mods, hotkey.code>>

\* The hotkey the rebuild derives for a macro, as a sequence of at most one:
\* the macro is enabled, has a shortcut, and the shortcut's key resolves.
hotkey_of(macro_def) ==
    IF ~macro_def.enabled THEN <<>>
    ELSE IF macro_def.shortcut = <<>> THEN <<>>
    ELSE LET shortcut == macro_def.shortcut[1]
             code == string_to_code(shortcut.key)
         IN IF code = None THEN <<>>
            ELSE <<HotKey(to_hotkey_modifiers(shortcut.ctrl, shortcut.alt,
                                              shortcut.shift, shortcut.win), code)>>

\* manager.unregister for every hotkey of registered_hotkeys; a failed call
\* (hotkey in ufail) is logged and leaves the OS registration in place.
UnregisterAll(os, regs, ufail) ==
    os \ {regs[i] : i \in {j \in 1..Len(regs) : regs[j] \notin ufail}}

\* The registration loop over config.macros. st = [os, map, regs]:
\* the hotkeys registered with the OS, hotkey_map and registered_hotkeys.
\* manager.register fails for a hotkey that is already registered and for
\* the hotkeys the OS refuses (rfail).
RECURSIVE RegisterAll(_, _, _)
RegisterAll(macros, st, rfail) ==
    IF macros = <<>> THEN st
    ELSE LET macro_def == Head(macros)
             hk == hotkey_of(macro_def)
         IN IF hk = <<>> THEN RegisterAll(Tail(macros), st, rfail)
            ELSE IF hk[1] \in st.os \/ hk[1] \in rfail
                 THEN RegisterAll(Tail(macros), st, rfail)
                 ELSE RegisterAll(Tail(macros),
                        [os |-> st.os \cup {hk[1]},
                         map |-> (HotKeyId(hk[1]) :> macro_def.name) @@ st.map,
                         regs |-> Append(st.regs, hk[1])],
                        rfail)

\* config.macros.iter().find(|m| m.name == *macro_name && m.enabled).cloned()
RECURSIVE find_macro(_, _)
find_macro(macros, macro_name) ==
    IF macros = <<>> THEN <<>>
    ELSE IF Head(macros).name = macro_name /\ Head(macros).enabled
         THEN <<Head(macros)>>
         ELSE find_macro(Tail(macros), macro_name)

\* needs_update: the change detection of the dispatch loop as shipped.
needs_update == FALSE

\* --------------------------------------------------------------- executor
\* Mutant of Passes: the Count loop written `0..=times`, one pass too many.
PassesInclusive(cycle_mode) ==
    CASE cycle_mode.mode = "Once" -> 1
      [] cycle_mode.mode = "Count" -> cycle_mode.times + 1
      [] cycle_mode.mode = "UntilKeyPressed" -> 1

\* The number of execute_actions passes execute() makes for a cycle mode.
Passes(cycle_mode) ==
    CASE cycle_mode.mode = "Once" -> 1
      [] cycle_mode.mode = "Count" -> cycle_mode.times
      [] cycle_mode.mode = "UntilKeyPressed" -> 1

\* Mutant of Injects: the enigo call made for every key action, resolved or
\* not, so that an unresolved key name can fail the execution.
InjectsAnyKey(action) ==
    action.type \in {"KeyPress", "KeyRelease", "MouseClick", "MouseMove"}

\* Whether executing the action calls into enigo (and so can fail).
Injects(action) ==
    CASE action.type \in {"KeyPress", "KeyRelease"} ->
            string_to_enigo_key(action.key) # None
      [] action.type \in {"MouseClick", "MouseMove"} -> TRUE
      [] OTHER -> FALSE

\* to_enigo_button
to_enigo_button(button) == button

\* What one successfully executed action issues, in order: the injected
\* input, then the blocking sleep.
Issue(action) ==
    CASE action.type = "KeyPress" ->
            (IF string_to_enigo_key(action.key) # None
             THEN <<[op |-> "key", key |-> string_to_enigo_key(action.key), dir |-> "Press"]>>
             ELSE <<>>)
            \o (IF action.delay_ms > 0 THEN <<[op |-> "sleep", ms |-> action.delay_ms]>> ELSE <<>>)
      [] action.type = "KeyRelease" ->
            (IF string_to_enigo_key(action.key) # None
             THEN <<[op |-> "key", key |-> string_to_enigo_key(action.key), dir |-> "Release"]>>
             ELSE <<>>)
            \o (IF action.delay_ms > 0 THEN <<[op |-> "sleep", ms |-> action.delay_ms]>> ELSE <<>>)
      [] action.type = "MouseClick" ->
            <<[op |-> "button", button |-> to_enigo_button(action.button),
               dir |-> IF action.press THEN "Press" ELSE "Release"]>>
      [] action.type = "MouseMove" ->
            <<[op |-> "move", x |-> action.x, y |-> action.y]>>
      [] action.type = "Delay" ->
            <<[op |-> "sleep", ms |-> action.ms]>>

\* ------------------------------------------------------------------ state
VARIABLES
    config,              \* MacroAppState.config.macros
    enabled,             \* MacroAppState.enabled
    executing,           \* MacroAppState.executing
    proc,                \* the process: "running", "exited" or "panicked"
    pc,                  \* position of the dispatch loop thread
    events,              \* GlobalHotKeyEvent channel: [id, during], where
                         \* during records whether the trigger arrived
                         \* while the loop was Executing
    hotkey_map,          \* hotkey id -> macro name
    registered_hotkeys,  \* Vec<HotKey> kept for cleanup
    os_hotkeys,          \* hotkeys the manager holds registered with the OS
    macro_name,          \* run_hotkey_loop local: the name looked up
    macro_def,           \* run_hotkey_loop local: Option<MacroDefinition>
    from_busy,           \* whether the event being dispatched arrived
                         \* while the loop was Executing
    cycle,               \* execute(): passes completed
    idx,                 \* execute_actions(): index of the next action
    out,                 \* what execute() has issued so far, in order
    result,              \* execute()'s result: "none", "Ok" or "Err"
    stop_pressed,        \* the user has pressed the macro's stop key
    \* InputRecorder (settings process)
    is_recording,        \* InputRecorder.is_recording
    receiver,            \* InputRecorder.receiver: 0 for None, else the
                         \* listener thread whose channel it receives from
    stop_signal,         \* InputRecorder.stop_signal: 0 for None, else the
                         \* listener thread it signals
    chan,                \* the actions waiting in the receiver's channel
    stop_chan,           \* listener threads with a stop message waiting
    listener,            \* position of each listener thread
    hooks,               \* listener threads whose keyboard hook is installed
    gui_pc,              \* the thread calling the recorder: "idle", or
                         \* "stopping" inside stop_recording's 50 ms sleep
    was_recording,       \* is_recording when stop_recording was called
    last_call,           \* the last recorder call that returned
    captured,            \* the key actions the recorder's hooks produced
    returned,            \* the actions poll_actions/stop_recording returned
    hook_call,           \* the last hook callback invocation
    \* input_hooks (keyboard_hook.rs, mouse_hook.rs)
    KEYBOARD_HOOK,       \* Option<HHOOK>: 0 for None, else the handle
    KEYBOARD_SENDER,     \* Option<Sender<KeyboardData>>: <<>> for None, else
                         \* <<connected>>: whether its Receiver is alive
    keyboard_chan,       \* the events waiting in the sender's channel
    keyboard_hooks,      \* keyboard hook handles installed with the OS
    MOUSE_HOOK,          \* Option<HHOOK>
    MOUSE_SENDER,        \* Option<Sender<MouseData>>
    mouse_chan,          \* the events waiting in the sender's channel
    mouse_hooks,         \* mouse hook handles installed with the OS
    LAST_MOUSE_POS,      \* last mouse position seen by mouse_proc
    \* macro editor (settings process)
    macro_editor_state,  \* the MacroEditorState of the settings window
    settings_proc,       \* the settings process: "running" or "panicked"
    last_message,        \* the last message the settings window handled
    session              \* the recording session being followed: the
                         \* editor's macros when it started and the actions
                         \* delivered to the editor since

rec_vars ==
    <<is_recording, receiver, stop_signal, chan, stop_chan, listener, hooks,
      gui_pc, was_recording, last_call, captured, returned>>

keyboard_vars == <<KEYBOARD_HOOK, KEYBOARD_SENDER, keyboard_chan, keyboard_hooks>>

mouse_vars == <<MOUSE_HOOK, MOUSE_SENDER, mouse_chan, mouse_hooks, LAST_MOUSE_POS>>

capture_vars == <<rec_vars, hook_call, keyboard_vars, mouse_vars>>

macro_vars ==
    <<config, enabled, executing, proc, pc, events, hotkey_map,
      registered_hotkeys, os_hotkeys, macro_name, macro_def, from_busy,
      cycle, idx, out, result, stop_pressed>>

editor_vars == <<macro_editor_state, settings_proc, last_message, session>>

\* settings host, profile store and single function calls
VARIABLES
    validate_call,  \* the macro validate() was called on and what it returned
    selected_profile_index,  \* GameOptimizer.selected_profile_index
    profiles,  \* GameOptimizer.profiles: the macros of each profile
    disk,  \* the profiles last written by save_profiles, if any
    now,  \* Instant::now(), in ms since the listener thread started
    HOOK_LAST_TIME,  \* the listener thread's HOOK_LAST_TIME, same unit
    event,  \* the hotkey id of the event the dispatch loop's iteration holds
    running,  \* InputListener.running
    message_thread,  \* where the message loop thread of the InputListener is
    stop_pc,  \* where the caller of InputListener::stop is
    thread_msgs  \* the messages waiting in the message loop thread's queue

host_vars ==
    <<validate_call, selected_profile_index, profiles, disk, now, HOOK_LAST_TIME, event, running, message_thread, stop_pc, thread_msgs>>

vars == <<macro_vars, capture_vars, editor_vars, host_vars>>

InitHost ==
    /\ validate_call = [macro |-> <<>>, ret |-> "none"]
    /\ selected_profile_index = <<>>
    /\ profiles = <<>>
    /\ disk = <<>>
    /\ now = 0
    /\ HOOK_LAST_TIME = 0
    /\ event = <<>>
    /\ running = FALSE
    /\ message_thread = "unspawned"
    /\ stop_pc = "idle"
    /\ thread_msgs = <<>>

app_vars == <<config, enabled, executing>>

table_vars == <<hotkey_map, registered_hotkeys, os_hotkeys>>

exec_vars == <<cycle, idx, out, result>>

\* ------------------------------------------------------------ input sets
CtrlA == Shortcut(TRUE, FALSE, FALSE, FALSE, "a")

BareB == Shortcut(FALSE, FALSE, FALSE, FALSE, "B")

CtrlF13 == Shortcut(TRUE, FALSE, FALSE, FALSE, "F13")

\* The macros the settings process sends in ConfigUpdated messages.
ConfigMacros ==
    { MacroDefinition("A", TRUE, <<KeyPress("A", 0)>>, <<CtrlA>>, Once),
      MacroDefinition("B", TRUE, <<MouseClick("Left", TRUE)>>, <<BareB>>, Count(2)),
      MacroDefinition("C", TRUE, <<Delay(20)>>, <<CtrlF13>>, Once),
      MacroDefinition("A", FALSE, <<KeyPress("A", 0)>>, <<CtrlA>>, Once),
      MacroDefinition("D", TRUE, <<Delay(20)>>, <<>>, Once) }

SeqsUpTo(S, n) == UNION {[1..k -> S] : k \in 0..n}

Configs == SeqsUpTo(ConfigMacros, MaxMacros)

Burst == <<KeyPress("A", 0), Delay(20), KeyRelease("A", 0)>>

Mixed == <<KeyPress("F13", 5), MouseClick("Left", TRUE), MouseMove(10, 20),
           KeyRelease("space", 5)>>

\* The macros execute() is applied to in the executor's specification.
ExecMacros ==
    { MacroDefinition("Burst", TRUE, Burst, <<>>, Count(n)) : n \in 0..MaxCount }
    \cup { MacroDefinition("Burst", TRUE, Burst, <<>>, Once),
           MacroDefinition("Burst", TRUE, Burst, <<>>, UntilKeyPressed("ESC")),
           MacroDefinition("Mixed", TRUE, Mixed, <<>>, Count(2)),
           MacroDefinition("Empty", TRUE, <<>>, <<>>, Once) }

Range(seq) == {seq[i] : i \in 1..Len(seq)}

\* The hotkeys a rebuild from the macros asks the OS to register.
Candidates(macros) ==
    {hotkey_of(macros[i])[1] : i \in {j \in 1..Len(macros) : hotkey_of(macros[j]) # <<>>}}

\* --------------------------------------------------------- input_recorder
\* HC_ACTION of WindowsAndMessaging.
HC_ACTION == 0

\* The virtual-key names of vk_to_string the model draws keys from.
VkNames ==
    <<<<8, "Backspace">>, <<9, "Tab">>, <<13, "Enter">>, <<16, "Shift">>,
      <<17, "Ctrl">>, <<18, "Alt">>, <<20, "CapsLock">>, <<27, "Esc">>,
      <<32, "Space">>, <<48, "0">>, <<65, "A">>, <<66, "B">>, <<91, "Win">>,
      <<96, "Num0">>, <<112, "F1">>, <<160, "Shift">>, <<162, "Ctrl">>,
      <<164, "Alt">>, <<165, "AltGr">>>>

\* vk_to_string: Windows virtual-key code -> key name, "Key<vk>" when unknown.
vk_to_string(vk) ==
    IF \E i \in 1..Len(VkNames) : VkNames[i][1] = vk
    THEN VkNames[CHOOSE i \in 1..Len(VkNames) : VkNames[i][1] = vk][2]
    ELSE "Key" \o ToString(vk)

\* The listener threads start_recording can spawn.
Threads == 1..MaxStarts

\* The hook codes, message types and keys the OS calls a keyboard hook with,
\* and the milliseconds elapsed since the previous captured event.
HookCodes == {-1, HC_ACTION}

KeyMsgs == {"WM_KEYDOWN", "WM_KEYUP", "WM_SYSKEYDOWN", "WM_SYSKEYUP", "WM_CHAR"}

Vks == {65}

Elapsed == {5, 30, 60}

KeyEvents == [code : HookCodes, msg : KeyMsgs, vk : Vks]

\* The thread-local slots of listener thread k: set at the thread's start,
\* cleared when it cleans up, so set exactly while the thread pumps.
HOOK_TX(k) == IF listener[k] \in {"check", "peek"} THEN <<k>> ELSE <<>>

HOOK_RECORDING(k) == listener[k] \in {"check", "peek"}

\* What keyboard_hook_proc sends for an event, in order: the Delay when more
\* than 10 ms have elapsed, then the key action with delay_ms 0.
HookSends(e, delay_ms) ==
    LET is_press == e.msg \in {"WM_KEYDOWN", "WM_SYSKEYDOWN"}
        is_release == e.msg \in {"WM_KEYUP", "WM_SYSKEYUP"}
        key_str == vk_to_string(e.vk)
    IN IF e.code = HC_ACTION /\ (is_press \/ is_release)
       THEN (IF delay_ms > 10 THEN <<Delay(delay_ms)>> ELSE <<>>)
            \o <<IF is_press THEN KeyPress(key_str, 0) ELSE KeyRelease(key_str, 0)>>
       ELSE <<>>

\* keyboard_hook_proc called on listener thread k. tx.send fails once the
\* Receiver is dropped (the session's receiver no longer is k's channel).
\* The callback ends with CallNextHookEx(code, wparam, lparam).
keyboard_hook_proc(k, e, delay_ms) ==
    LET sends == IF HOOK_RECORDING(k) /\ HOOK_TX(k) # <<>>
                 THEN HookSends(e, delay_ms) ELSE <<>>
    IN /\ chan' = IF receiver = k THEN chan \o sends ELSE chan
       /\ captured' = IF sends # <<>> THEN Append(captured, sends[Len(sends)])
                      ELSE captured
       /\ hook_call' = [proc |-> "keyboard_hook_proc", event |-> e,
                        next |-> e, sent |-> sends]

\* InputRecorder::optimize_actions: the loop over the actions, then the
\* flush of the remaining delay.
RECURSIVE optimize_loop(_, _, _)
optimize_loop(actions, optimized, pending_delay) ==
    IF actions = <<>>
    THEN (IF pending_delay > 50 THEN Append(optimized, Delay(pending_delay))
          ELSE optimized)
    ELSE IF Head(actions).type = "Delay"
         THEN optimize_loop(Tail(actions), optimized,
                            pending_delay + Head(actions).ms)
         ELSE optimize_loop(Tail(actions),
                            (IF pending_delay > 50
                             THEN Append(optimized, Delay(pending_delay))
                             ELSE optimized) \o <<Head(actions)>>,
                            0)

\* Mutant of optimize_actions: the recorded actions returned as drained.
optimize_actions_skipped(actions) == actions

optimize_actions(actions) == optimize_loop(actions, <<>>, 0)

\* The listener thread the next start_recording spawns.
NextThread == Cardinality({k \in Threads : listener[k] # "unspawned"}) + 1

\* ------------------------------------------------------------ input_hooks
\* The message types, cursor positions and mouseData words the OS calls a
\* mouse hook with.
MouseMsgs ==
    {"WM_LBUTTONDOWN", "WM_LBUTTONUP", "WM_XBUTTONDOWN", "WM_MOUSEMOVE",
     "WM_MOUSEWHEEL", "WM_MOUSEHWHEEL"}

Points == {<<0, 0>>, <<3, 4>>}

MouseWords == {65536, 196608}

\* A smallest hook handle the OS has not handed out, 0 when the model's
\* handles are used up.
FreeHandle(installed) ==
    IF \E h \in 1..MaxInstalls : h \notin installed
    THEN CHOOSE h \in 1..MaxInstalls :
            h \notin installed /\ \A g \in 1..(h - 1) : g \in installed
    ELSE 0

\* KeyboardData::new(vk, scanCode, flags, time): the key and its state.
KeyboardData(key, flags) == [key |-> key, flags |-> flags]

\* MouseData::new_click / new_move / new_wheel
new_click(button, flags, position) ==
    [button |-> button, flags |-> flags, position_absolute |-> position,
     position_relative |-> <<0, 0>>, wheel_delta |-> 0]

new_move(position_absolute, position_relative) ==
    [button |-> "None", flags |-> "Down", position_absolute |-> position_absolute,
     position_relative |-> position_relative, wheel_delta |-> 0]

new_wheel(delta, position) ==
    [button |-> "None", flags |-> "Down", position_absolute |-> position,
     position_relative |-> <<0, 0>>, wheel_delta |-> delta]

\* get_x_button: the high word of mouseData.
get_x_button(mouse_data) ==
    CASE mouse_data \div 65536 = 1 -> "X1"
      [] mouse_data \div 65536 = 2 -> "X2"
      [] OTHER -> "None"

\* (mouseData >> 16) as i16
wheel_delta(mouse_data) ==
    LET hi == (mouse_data \div 65536) % 65536
    IN IF hi >= 32768 THEN hi - 65536 ELSE hi

\* The flags keyboard_proc derives from the message type.
KeyFlagsOf(msg) ==
    CASE msg \in {"WM_KEYDOWN", "WM_SYSKEYDOWN"} -> "Down"
      [] msg \in {"WM_KEYUP", "WM_SYSKEYUP"} -> "Up"
      [] OTHER -> "Down"

\* The Option<MouseData> mouse_proc derives from the message.
MouseDataOf(e, last_pos) ==
    CASE e.msg = "WM_LBUTTONDOWN" -> <<new_click("Left", "Down", e.pt)>>
      [] e.msg = "WM_LBUTTONUP" -> <<new_click("Left", "Up", e.pt)>>
      [] e.msg = "WM_XBUTTONDOWN" ->
            <<new_click(get_x_button(e.mouseData), "Down", e.pt)>>
      [] e.msg = "WM_MOUSEMOVE" ->
            <<new_move(e.pt, <<e.pt[1] - last_pos[1], e.pt[2] - last_pos[2]>>)>>
      [] e.msg = "WM_MOUSEWHEEL" -> <<new_wheel(wheel_delta(e.mouseData), e.pt)>>
      [] OTHER -> <<>>

MouseEvents == [code : HookCodes, msg : MouseMsgs, pt : Points, mouseData : MouseWords]

\* sender.try_send(data) on the bounded channel: delivered unless the
\* channel is full or its Receiver is dropped.
TrySendOk(sender, buffer) ==
    sender = <<TRUE>> /\ Len(buffer) < BufferSize

\* Mutant of keyboard_proc: sender.send instead of try_send, which waits
\* for room in the channel.
keyboard_proc_blocking(e) ==
    LET data == KeyboardData(e.vk, KeyFlagsOf(e.msg))
        sends == e.code >= 0 /\ KEYBOARD_SENDER = <<TRUE>>
    IN /\ sends => Len(keyboard_chan) < BufferSize
       /\ keyboard_chan' = IF sends THEN Append(keyboard_chan, data) ELSE keyboard_chan
       /\ hook_call' = [proc |-> "keyboard_proc", event |-> e, next |-> e,
                        sent |-> IF sends THEN <<data>> ELSE <<>>]

\* keyboard_proc: the callback ends with CallNextHookEx(n_code, w_param, l_param).
keyboard_proc(e) ==
    LET data == KeyboardData(e.vk, KeyFlagsOf(e.msg))
        sends == e.code >= 0 /\ KEYBOARD_SENDER # <<>>
                 /\ TrySendOk(KEYBOARD_SENDER, keyboard_chan)
    IN /\ keyboard_chan' = IF sends THEN Append(keyboard_chan, data) ELSE keyboard_chan
       /\ hook_call' = [proc |-> "keyboard_proc", event |-> e, next |-> e,
                        sent |-> IF sends THEN <<data>> ELSE <<>>]

\* mouse_proc: the callback ends with CallNextHookEx(n_code, w_param, l_param).
mouse_proc(e) ==
    LET data == IF e.code >= 0 THEN MouseDataOf(e, LAST_MOUSE_POS) ELSE <<>>
        sends == data # <<>> /\ MOUSE_SENDER # <<>>
                 /\ TrySendOk(MOUSE_SENDER, mouse_chan)
    IN /\ LAST_MOUSE_POS' = IF e.code >= 0 /\ e.msg = "WM_MOUSEMOVE" THEN e.pt
                            ELSE LAST_MOUSE_POS
       /\ mouse_chan' = IF sends THEN mouse_chan \o data ELSE mouse_chan
       /\ hook_call' = [proc |-> "mouse_proc", event |-> e, next |-> e,
                        sent |-> IF sends THEN data ELSE <<>>]

\* The statics before init_statics and once initialised hold None.
InitHooks ==
    /\ KEYBOARD_HOOK = 0
    /\ KEYBOARD_SENDER = <<>>
    /\ keyboard_chan = <<>>
    /\ keyboard_hooks = {}
    /\ MOUSE_HOOK = 0
    /\ MOUSE_SENDER = <<>>
    /\ mouse_chan = <<>>
    /\ mouse_hooks = {}
    /\ LAST_MOUSE_POS = <<0, 0>>

\* install_keyboard_hook(sender) returning Ok: the sender of a fresh channel
\* stored, the hook installed, its handle stored over the previous one.
InstallKeyboardHookOk ==
    /\ FreeHandle(keyboard_hooks) # 0
    /\ KEYBOARD_SENDER' = <<TRUE>>
    /\ keyboard_chan' = <<>>
    /\ keyboard_hooks' = keyboard_hooks \cup {FreeHandle(keyboard_hooks)}
    /\ KEYBOARD_HOOK' = FreeHandle(keyboard_hooks)
    /\ UNCHANGED <<host_vars, editor_vars, macro_vars, rec_vars, hook_call, mouse_vars>>

\* install_keyboard_hook(sender) returning Err: the sender is stored, the
\* hook is not installed; the caller drops the Receiver with the error.
InstallKeyboardHookErr ==
    /\ KEYBOARD_SENDER' = <<FALSE>>
    /\ keyboard_chan' = <<>>
    /\ UNCHANGED <<host_vars, editor_vars, macro_vars, rec_vars, hook_call, mouse_vars, KEYBOARD_HOOK,
                   keyboard_hooks>>

\* uninstall_keyboard_hook: the stored handle unhooked, the sender cleared.
UninstallKeyboardHook ==
    /\ keyboard_hooks' = keyboard_hooks \ {KEYBOARD_HOOK}
    /\ KEYBOARD_HOOK' = 0
    /\ KEYBOARD_SENDER' = <<>>
    /\ keyboard_chan' = <<>>
    /\ UNCHANGED <<host_vars, editor_vars, macro_vars, rec_vars, hook_call, mouse_vars>>

\* The OS calls keyboard_proc for a key event while a keyboard hook of the
\* module is installed.
KeyboardProc ==
    /\ keyboard_hooks # {}
    /\ \E e \in KeyEvents : keyboard_proc(e)
    /\ UNCHANGED <<host_vars, editor_vars, macro_vars, rec_vars, mouse_vars, KEYBOARD_HOOK,
                   KEYBOARD_SENDER, keyboard_hooks>>

\* The owner of the keyboard Receiver takes an event.
KeyboardRecv ==
    /\ KEYBOARD_SENDER = <<TRUE>>
    /\ keyboard_chan # <<>>
    /\ keyboard_chan' = Tail(keyboard_chan)
    /\ UNCHANGED <<host_vars, editor_vars, macro_vars, rec_vars, hook_call, mouse_vars, KEYBOARD_HOOK,
                   KEYBOARD_SENDER, keyboard_hooks>>

\* install_mouse_hook(sender) returning Ok.
InstallMouseHookOk ==
    /\ FreeHandle(mouse_hooks) # 0
    /\ MOUSE_SENDER' = <<TRUE>>
    /\ mouse_chan' = <<>>
    /\ mouse_hooks' = mouse_hooks \cup {FreeHandle(mouse_hooks)}
    /\ MOUSE_HOOK' = FreeHandle(mouse_hooks)
    /\ UNCHANGED <<host_vars, editor_vars, macro_vars, rec_vars, hook_call, keyboard_vars, LAST_MOUSE_POS>>

\* install_mouse_hook(sender) returning Err.
InstallMouseHookErr ==
    /\ MOUSE_SENDER' = <<FALSE>>
    /\ mouse_chan' = <<>>
    /\ UNCHANGED <<host_vars, editor_vars, macro_vars, rec_vars, hook_call, keyboard_vars, MOUSE_HOOK,
                   mouse_hooks, LAST_MOUSE_POS>>

\* uninstall_mouse_hook
UninstallMouseHook ==
    /\ mouse_hooks' = mouse_hooks \ {MOUSE_HOOK}
    /\ MOUSE_HOOK' = 0
    /\ MOUSE_SENDER' = <<>>
    /\ mouse_chan' = <<>>
    /\ UNCHANGED <<host_vars, editor_vars, macro_vars, rec_vars, hook_call, keyboard_vars, LAST_MOUSE_POS>>

\* The OS calls mouse_proc for a mouse event while a mouse hook of the
\* module is installed.
MouseProc ==
    /\ mouse_hooks # {}
    /\ \E e \in MouseEvents : mouse_proc(e)
    /\ UNCHANGED <<host_vars, editor_vars, macro_vars, rec_vars, keyboard_vars, MOUSE_HOOK, MOUSE_SENDER,
                   mouse_hooks>>

\* The owner of the mouse Receiver takes an event.
MouseRecv ==
    /\ MOUSE_SENDER = <<TRUE>>
    /\ mouse_chan # <<>>
    /\ mouse_chan' = Tail(mouse_chan)
    /\ UNCHANGED <<host_vars, editor_vars, macro_vars, rec_vars, hook_call, keyboard_vars, MOUSE_HOOK,
                   MOUSE_SENDER, mouse_hooks, LAST_MOUSE_POS>>

\* ---------------------------------------------- input_recorder (session)
\* InputRecorder::new() and no hook callback made yet.
InitCapture ==
    /\ is_recording = FALSE
    /\ receiver = 0
    /\ stop_signal = 0
    /\ chan = <<>>
    /\ stop_chan = {}
    /\ listener = [k \in Threads |-> "unspawned"]
    /\ hooks = {}
    /\ gui_pc = "idle"
    /\ was_recording = FALSE
    /\ last_call = [op |-> "new", log |-> "", ret |-> <<>>]
    /\ captured = <<>>
    /\ returned = <<>>
    /\ hook_call = [proc |-> "none"]
    /\ InitHooks

\* Mutant of StartRecordingIgnored: start_recording without its is_recording
\* guard, starting a second session over the running one.
StartRecordingAgain ==
    /\ gui_pc = "idle"
    /\ is_recording
    /\ NextThread \in Threads
    /\ receiver' = NextThread
    /\ stop_signal' = NextThread
    /\ chan' = <<>>
    /\ listener' = [listener EXCEPT ![NextThread] = "spawned"]
    /\ last_call' = [op |-> "start_recording", log |-> "Recording started",
                     ret |-> <<>>]
    /\ UNCHANGED <<host_vars, editor_vars, macro_vars, keyboard_vars, mouse_vars, is_recording, stop_chan, hooks, gui_pc,
                   was_recording, captured, returned, hook_call>>

\* start_recording while is_recording: "Already recording, ignoring".
StartRecordingIgnored ==
    /\ gui_pc = "idle"
    /\ is_recording
    /\ last_call' = [op |-> "start_recording", log |-> "Already recording",
                     ret |-> <<>>]
    /\ UNCHANGED <<host_vars, editor_vars, macro_vars, keyboard_vars, mouse_vars, is_recording, receiver, stop_signal, chan,
                   stop_chan, listener, hooks, gui_pc, was_recording, captured,
                   returned, hook_call>>

\* start_recording: fresh channels, is_recording set, listener spawned.
StartRecording ==
    /\ gui_pc = "idle"
    /\ ~is_recording
    /\ NextThread \in Threads
    /\ receiver' = NextThread
    /\ stop_signal' = NextThread
    /\ chan' = <<>>
    /\ is_recording' = TRUE
    /\ listener' = [listener EXCEPT ![NextThread] = "spawned"]
    /\ last_call' = [op |-> "start_recording", log |-> "Recording started",
                     ret |-> <<>>]
    /\ UNCHANGED <<host_vars, editor_vars, macro_vars, keyboard_vars, mouse_vars, stop_chan, hooks, gui_pc, was_recording,
                   captured, returned, hook_call>>

\* stop_recording up to its sleep: is_recording cleared, the stop signal
\* sent (the send fails when the listener has ended and dropped stop_rx).
StopRecordingCall ==
    /\ gui_pc = "idle"
    /\ was_recording' = is_recording
    /\ is_recording' = FALSE
    /\ stop_chan' = IF stop_signal # 0 /\ listener[stop_signal] \notin {"failed", "ended"}
                    THEN stop_chan \cup {stop_signal} ELSE stop_chan
    /\ gui_pc' = "stopping"
    /\ UNCHANGED <<host_vars, editor_vars, macro_vars, keyboard_vars, mouse_vars, receiver, stop_signal, chan, listener, hooks,
                   last_call, captured, returned, hook_call>>

\* Mutant of StopRecordingReturn: the pending actions read without being
\* drained and the receiver kept.
StopRecordingReturnNoCleanup ==
    /\ gui_pc = "stopping"
    /\ last_call' = [op |-> "stop_recording", log |-> "",
                     ret |-> optimize_actions(IF receiver # 0 THEN chan ELSE <<>>)]
    /\ returned' = returned \o optimize_actions(IF receiver # 0 THEN chan ELSE <<>>)
    /\ gui_pc' = "idle"
    /\ UNCHANGED <<host_vars, editor_vars, macro_vars, keyboard_vars, mouse_vars, is_recording, receiver, stop_signal, chan,
                   stop_chan, listener, hooks, was_recording, captured, hook_call>>

\* stop_recording after its sleep: drain, drop the receiver and the stop
\* sender, return the optimized actions.
StopRecordingReturn ==
    /\ gui_pc = "stopping"
    /\ last_call' = [op |-> "stop_recording", log |-> "",
                     ret |-> optimize_actions(IF receiver # 0 THEN chan ELSE <<>>)]
    /\ returned' = returned \o optimize_actions(IF receiver # 0 THEN chan ELSE <<>>)
    /\ chan' = <<>>
    /\ receiver' = 0
    /\ stop_signal' = 0
    /\ gui_pc' = "idle"
    /\ UNCHANGED <<host_vars, editor_vars, macro_vars, keyboard_vars, mouse_vars, is_recording, stop_chan, listener, hooks,
                   was_recording, captured, hook_call>>

\* Mutant of PollActions: the pending actions read and left in the channel.
PollActionsNoDrain ==
    /\ gui_pc = "idle"
    /\ last_call' = [op |-> "poll_actions", log |-> "",
                     ret |-> IF receiver # 0 THEN chan ELSE <<>>]
    /\ returned' = returned \o (IF receiver # 0 THEN chan ELSE <<>>)
    /\ UNCHANGED <<host_vars, editor_vars, macro_vars, keyboard_vars, mouse_vars, is_recording, receiver, stop_signal, stop_chan,
                   listener, hooks, gui_pc, was_recording, captured, hook_call, chan>>

\* poll_actions: non-blocking drain of the receiver.
PollActions ==
    /\ gui_pc = "idle"
    /\ last_call' = [op |-> "poll_actions", log |-> "",
                     ret |-> IF receiver # 0 THEN chan ELSE <<>>]
    /\ returned' = returned \o (IF receiver # 0 THEN chan ELSE <<>>)
    /\ chan' = <<>>
    /\ UNCHANGED <<host_vars, editor_vars, macro_vars, keyboard_vars, mouse_vars, is_recording, receiver, stop_signal, stop_chan,
                   listener, hooks, gui_pc, was_recording, captured, hook_call>>

\* The listener thread's 'static closure: thread-local slots set, then
\* SetWindowsHookExW succeeds.
ListenerInstallOk(k) ==
    /\ listener[k] = "spawned"
    /\ hooks' = hooks \cup {k}
    /\ listener' = [listener EXCEPT ![k] = "check"]
    /\ UNCHANGED <<host_vars, editor_vars, macro_vars, keyboard_vars, mouse_vars, is_recording, receiver, stop_signal, chan,
                   stop_chan, gui_pc, was_recording, last_call, captured,
                   returned, hook_call>>

\* SetWindowsHookExW fails: the error is logged, the thread-local slots are
\* cleared and the thread ends (dropping tx and stop_rx).
ListenerInstallErr(k) ==
    /\ listener[k] = "spawned"
    /\ listener' = [listener EXCEPT ![k] = "failed"]
    /\ stop_chan' = stop_chan \ {k}
    /\ UNCHANGED <<host_vars, editor_vars, macro_vars, keyboard_vars, mouse_vars, is_recording, receiver, stop_signal, chan, hooks,
                   gui_pc, was_recording, last_call, captured, returned,
                   hook_call>>

\* Message pump: stop_rx.try_recv() finds no stop signal.
ListenerCheck(k) ==
    /\ listener[k] = "check"
    /\ k \notin stop_chan
    /\ listener' = [listener EXCEPT ![k] = "peek"]
    /\ UNCHANGED <<host_vars, editor_vars, macro_vars, keyboard_vars, mouse_vars, is_recording, receiver, stop_signal, chan,
                   stop_chan, hooks, gui_pc, was_recording, last_call, captured,
                   returned, hook_call>>

\* Message pump: the stop signal is received; UnhookWindowsHookEx, the
\* thread-local slots are cleared and the thread ends.
ListenerStop(k) ==
    /\ listener[k] = "check"
    /\ k \in stop_chan
    /\ stop_chan' = stop_chan \ {k}
    /\ hooks' = hooks \ {k}
    /\ listener' = [listener EXCEPT ![k] = "ended"]
    /\ UNCHANGED <<host_vars, editor_vars, macro_vars, keyboard_vars, mouse_vars, is_recording, receiver, stop_signal, chan,
                   gui_pc, was_recording, last_call, captured, returned,
                   hook_call>>

\* Message pump: PeekMessageW, during which the OS calls the thread's hook
\* for a key event.
ListenerPeekHook(k) ==
    /\ listener[k] = "peek"
    /\ Len(captured) < MaxKeys
    /\ \E e \in KeyEvents, delay_ms \in Elapsed : keyboard_hook_proc(k, e, delay_ms)
    /\ listener' = [listener EXCEPT ![k] = "check"]
    /\ UNCHANGED <<host_vars, editor_vars, macro_vars, keyboard_vars, mouse_vars, is_recording, receiver, stop_signal, stop_chan,
                   hooks, gui_pc, was_recording, last_call, returned>>

\* Message pump: no message; the 10 ms sleep.
ListenerPeekNone(k) ==
    /\ listener[k] = "peek"
    /\ listener' = [listener EXCEPT ![k] = "check"]
    /\ UNCHANGED <<host_vars, editor_vars, macro_vars, keyboard_vars, mouse_vars, is_recording, receiver, stop_signal, chan,
                   stop_chan, hooks, gui_pc, was_recording, last_call, captured,
                   returned, hook_call>>

\* ----------------------------------------------------------- macro_editor
\* MacroDefinition::new(name)
MacroDefinition_new(name) == MacroDefinition(name, TRUE, <<>>, <<>>, Once)

\* MacroShortcut::default()
MacroShortcut_default == Shortcut(FALSE, FALSE, FALSE, FALSE, "")

\* ContextMenuType variants
ContextMenuNone == [type |-> "None"]

MacroList(macro_index) == [type |-> "MacroList", macro_index |-> macro_index]

KeysList(action_index) == [type |-> "KeysList", action_index |-> action_index]

\* The text of a numeric input field is the sequence of its characters.
DigitValue(c) == IndexOf(Digits, c) - 1

IsDigits(text) == \A i \in 1..Len(text) : InSeq(Digits, text[i])

RECURSIVE StripZeros(_)
StripZeros(text) ==
    IF Len(text) > 1 /\ text[1] = "0" THEN StripZeros(Tail(text)) ELSE text

\* Whether the decimal number digits is larger than the decimal number max
\* (both without leading zeros): the overflow test of the integer parsers,
\* made on the digits because the widths of the source exceed the checker's
\* integers.
RECURSIVE DigitsGreater(_, _)
DigitsGreater(digits, max) ==
    IF Len(digits) # Len(max) THEN Len(digits) > Len(max)
    ELSE IF digits = <<>> THEN FALSE
    ELSE IF digits[1] # max[1] THEN DigitValue(digits[1]) > DigitValue(max[1])
    ELSE DigitsGreater(Tail(digits), Tail(max))

RECURSIVE DigitsValue(_, _)
DigitsValue(digits, acc) ==
    IF digits = <<>> THEN acc
    ELSE DigitsValue(Tail(digits), acc * 10 + DigitValue(digits[1]))

U32_MAX == <<"4", "2", "9", "4", "9", "6", "7", "2", "9", "5">>

U64_MAX ==
    <<"1", "8", "4", "4", "6", "7", "4", "4", "0", "7",
      "3", "7", "0", "9", "5", "5", "1", "6", "1", "5">>

I32_MAX == <<"2", "1", "4", "7", "4", "8", "3", "6", "4", "7">>

I32_MIN == <<"2", "1", "4", "7", "4", "8", "3", "6", "4", "8">>

\* str::parse for an unsigned integer type with largest value max: an
\* optional "+", then at least one digit and nothing else; Err on overflow.
\* Result<_, _> is <<n>> for Ok(n) and <<>> for Err.
parse_unsigned(text, max) ==
    LET digits == IF text # <<>> /\ text[1] = "+" THEN Tail(text) ELSE text
    IN IF digits = <<>> \/ ~IsDigits(digits) THEN <<>>
       ELSE IF DigitsGreater(StripZeros(digits), max) THEN <<>>
       ELSE <<DigitsValue(digits, 0)>>

\* str::parse::<i32>: an optional "+" or "-", then at least one digit.
parse_i32(text) ==
    LET signed == text # <<>> /\ text[1] \in {"+", "-"}
        negative == signed /\ text[1] = "-"
        digits == IF signed THEN Tail(text) ELSE text
    IN IF digits = <<>> \/ ~IsDigits(digits) THEN <<>>
       ELSE IF DigitsGreater(StripZeros(digits), IF negative THEN I32_MIN ELSE I32_MAX)
            THEN <<>>
       ELSE <<IF negative THEN 0 - DigitsValue(digits, 0) ELSE DigitsValue(digits, 0)>>

\* u32::to_string
RECURSIVE to_string(_)
to_string(n) ==
    IF n < 10 THEN <<Digits[n + 1]>>
    ELSE to_string(n \div 10) \o <<Digits[(n % 10) + 1]>>

\* Result::unwrap_or
unwrap_or(res, default) == IF res = <<>> THEN default ELSE res[1]

\* usize::saturating_sub
saturating_sub(a, b) == IF a > b THEN a - b ELSE 0

Min(a, b) == IF a < b THEN a ELSE b

\* Vec::remove(index), index < len
VecRemove(v, index) == SubSeq(v, 1, index) \o SubSeq(v, index + 2, Len(v))

\* Vec::insert(index, element), index <= len (it panics otherwise)
VecInsert(v, index, element) ==
    SubSeq(v, 1, index) \o <<element>> \o SubSeq(v, index + 1, Len(v))

\* MacroEditorState::default()
MacroEditorState_default ==
    [macros |-> <<>>,
     selected_macro |-> <<>>,
     selected_action |-> <<>>,
     is_recording |-> FALSE,
     insert_menu |-> "Closed",
     context_menu |-> ContextMenuNone,
     edit_name |-> "",
     edit_cycle_count |-> <<"1">>,
     edit_cycle_key |-> "",
     insert_x |-> <<"0">>,
     insert_y |-> <<"0">>,
     insert_delay_ms |-> <<"1", "0", "0">>,
     edit_shortcut_key |-> "",
     show_recording_warning |-> FALSE]

\* MacroEditorState::new(macros)
MacroEditorState_new(macros) == [MacroEditorState_default EXCEPT !.macros = macros]

\* Whether self.selected_macro.and_then(|i| self.macros.get(i)) is Some.
HasCurrent(s) ==
    s.selected_macro # <<>> /\ s.selected_macro[1] < Len(s.macros)

\* MacroEditorState::current_macro: Option<&MacroDefinition>
current_macro(s) ==
    IF HasCurrent(s) THEN <<s.macros[s.selected_macro[1] + 1]>> ELSE <<>>

\* `if let Some(m) = self.current_macro_mut() { F(m) }`
current_macro_mut(s, F(_)) ==
    IF HasCurrent(s)
    THEN [s EXCEPT !.macros[s.selected_macro[1] + 1] = F(@)]
    ELSE s

\* update(MacroMessage::SelectMacro(index)) past the recording test: the
\* selection moves and the edit fields are loaded from the macro, if any.
SelectMacroSwitch(s, index) ==
    LET t == [s EXCEPT !.selected_macro = <<index>>, !.selected_action = <<>>]
    IN IF index < Len(s.macros)
       THEN LET m == s.macros[index + 1]
            IN [t EXCEPT
                  !.edit_name = m.name,
                  !.edit_shortcut_key =
                      IF m.shortcut # <<>> THEN m.shortcut[1].key ELSE "",
                  !.edit_cycle_count =
                      IF m.cycle_mode.mode = "Once" THEN <<"1">>
                      ELSE IF m.cycle_mode.mode = "Count"
                           THEN to_string(m.cycle_mode.times)
                           ELSE @,
                  !.edit_cycle_key =
                      IF m.cycle_mode.mode = "UntilKeyPressed"
                      THEN m.cycle_mode.stop_key ELSE @]
       ELSE t

\* update(MacroMessage::SelectMacro(index)) without the recording test.
update_SelectMacro_unguarded(s, index) == SelectMacroSwitch(s, index)

\* update(MacroMessage::SelectMacro(index))
update_SelectMacro(s, index) ==
    IF s.is_recording THEN [s EXCEPT !.show_recording_warning = TRUE]
    ELSE SelectMacroSwitch(s, index)

\* format!("Macro {}", self.macros.len())
NewNameFromZero(s) == "Macro " \o ToString(Len(s.macros))

\* format!("Macro {}", self.macros.len() + 1)
NewName(s) == "Macro " \o ToString(Len(s.macros) + 1)

\* update(MacroMessage::NewMacro)
update_NewMacro(s) ==
    IF s.is_recording THEN [s EXCEPT !.show_recording_warning = TRUE]
    ELSE [s EXCEPT !.macros = Append(@, MacroDefinition_new(NewName(s))),
                   !.selected_macro = <<Len(s.macros)>>,
                   !.selected_action = <<>>,
                   !.edit_name = NewName(s)]

\* update(MacroMessage::RenameMacro(name))
update_RenameMacro(s, name) ==
    current_macro_mut([s EXCEPT !.edit_name = name],
                      LAMBDA m : [m EXCEPT !.name = name])

\* update(MacroMessage::DeleteMacro)
update_DeleteMacro(s) ==
    IF HasCurrent(s)
    THEN LET index == s.selected_macro[1]
             macros == VecRemove(s.macros, index)
         IN [s EXCEPT !.macros = macros,
                      !.selected_macro =
                          IF macros = <<>> THEN <<>>
                          ELSE <<Min(saturating_sub(index, 1), Len(macros) - 1)>>,
                      !.selected_action = <<>>]
    ELSE s

\* update(MacroMessage::ToggleMacroEnabled(enabled))
update_ToggleMacroEnabled(s, en) ==
    current_macro_mut(s, LAMBDA m : [m EXCEPT !.enabled = en])

\* update(MacroMessage::StartRecording) without the clear of the selected
\* macro's actions.
update_StartRecording_appending(s) ==
    LET t == IF s.selected_macro = <<>>
             THEN [s EXCEPT !.macros = Append(@, MacroDefinition_new(NewName(s))),
                            !.selected_macro = <<Len(s.macros)>>,
                            !.edit_name = NewName(s)]
             ELSE s
    IN [t EXCEPT !.selected_action = <<>>, !.is_recording = TRUE]

\* update(MacroMessage::StartRecording)
update_StartRecording(s) ==
    LET t == IF s.selected_macro = <<>>
             THEN [s EXCEPT !.macros = Append(@, MacroDefinition_new(NewName(s))),
                            !.selected_macro = <<Len(s.macros)>>,
                            !.edit_name = NewName(s)]
             ELSE current_macro_mut(s, LAMBDA m : [m EXCEPT !.actions = <<>>])
    IN [t EXCEPT !.selected_action = <<>>, !.is_recording = TRUE]

\* update(MacroMessage::StopRecording)
update_StopRecording(s) == [s EXCEPT !.is_recording = FALSE]

\* update(MacroMessage::RecordedAction(action)) without the test of the
\* recording flag.
update_RecordedAction_unguarded(s, action) ==
    current_macro_mut(s, LAMBDA m : [m EXCEPT !.actions = Append(@, action)])

\* update(MacroMessage::RecordedAction(action))
update_RecordedAction(s, action) ==
    IF s.is_recording
    THEN current_macro_mut(s, LAMBDA m : [m EXCEPT !.actions = Append(@, action)])
    ELSE s

\* update(MacroMessage::SelectAction(index))
update_SelectAction(s, index) == [s EXCEPT !.selected_action = <<index>>]

\* update(MacroMessage::DeleteAction) keeping the selection where it was.
update_DeleteAction_unclamped(s) ==
    IF s.selected_action # <<>> /\ HasCurrent(s)
       /\ s.selected_action[1] < Len(current_macro(s)[1].actions)
    THEN current_macro_mut(s, LAMBDA m :
             [m EXCEPT !.actions = VecRemove(@, s.selected_action[1])])
    ELSE s

\* update(MacroMessage::DeleteAction)
update_DeleteAction(s) ==
    IF s.selected_action # <<>> /\ HasCurrent(s)
       /\ s.selected_action[1] < Len(current_macro(s)[1].actions)
    THEN LET action_idx == s.selected_action[1]
             actions == VecRemove(current_macro(s)[1].actions, action_idx)
         IN [current_macro_mut(s, LAMBDA m : [m EXCEPT !.actions = actions])
               EXCEPT !.selected_action =
                   IF actions = <<>> THEN <<>>
                   ELSE <<Min(saturating_sub(action_idx, 1), Len(actions) - 1)>>]
    ELSE s

\* update(MacroMessage::ChangeActionParameter(_param))
update_ChangeActionParameter(s) == s

\* update(MacroMessage::OpenInsertMenu)
update_OpenInsertMenu(s) == [s EXCEPT !.insert_menu = "Open"]

\* update(MacroMessage::CloseInsertMenu)
update_CloseInsertMenu(s) == [s EXCEPT !.insert_menu = "Closed"]

\* Whether update(InsertMousePrevious(..)) panics: Vec::insert with an index
\* past the end of the action list.
InsertMousePreviousPanics(s) ==
    /\ s.selected_action # <<>>
    /\ HasCurrent(s)
    /\ s.selected_action[1] > Len(current_macro(s)[1].actions)

\* update(MacroMessage::InsertMousePrevious(button, is_press)), not panicking
update_InsertMousePrevious(s, button, is_press) ==
    LET t == IF s.selected_action # <<>>
             THEN current_macro_mut(s, LAMBDA m :
                      [m EXCEPT !.actions =
                          VecInsert(@, s.selected_action[1], MouseClick(button, is_press))])
             ELSE s
    IN [t EXCEPT !.insert_menu = "Closed"]

\* update(MacroMessage::InsertMouseAfter(button, is_press))
update_InsertMouseAfter(s, button, is_press) ==
    LET action == MouseClick(button, is_press)
        t == IF s.selected_action # <<>>
             THEN current_macro_mut(s, LAMBDA m :
                      [m EXCEPT !.actions =
                          VecInsert(@, Min(s.selected_action[1] + 1, Len(@)), action)])
             ELSE current_macro_mut(s, LAMBDA m :
                      [m EXCEPT !.actions = Append(@, action)])
    IN [t EXCEPT !.insert_menu = "Closed"]

\* update(MacroMessage::InsertXYInputX(x))
update_InsertXYInputX(s, x) == [s EXCEPT !.insert_x = x]

\* update(MacroMessage::InsertXYInputY(y))
update_InsertXYInputY(s, y) == [s EXCEPT !.insert_y = y]

\* update(MacroMessage::InsertXY(x, y))
update_InsertXY(s, x, y) ==
    [current_macro_mut(s, LAMBDA m : [m EXCEPT !.actions = Append(@, MouseMove(x, y))])
       EXCEPT !.insert_menu = "Closed"]

\* update(MacroMessage::ConfirmInsertXY)
update_ConfirmInsertXY(s) ==
    LET x == unwrap_or(parse_i32(s.insert_x), 0)
        y == unwrap_or(parse_i32(s.insert_y), 0)
    IN [current_macro_mut(s, LAMBDA m : [m EXCEPT !.actions = Append(@, MouseMove(x, y))])
          EXCEPT !.insert_menu = "Closed"]

\* update(MacroMessage::InsertDelayInput(ms))
update_InsertDelayInput(s, ms) == [s EXCEPT !.insert_delay_ms = ms]

\* update(MacroMessage::InsertDelay(ms)) placing the action after the cursor,
\* as InsertMouseAfter does.
update_InsertDelay_after(s, ms) ==
    LET t == IF s.selected_action # <<>>
             THEN current_macro_mut(s, LAMBDA m :
                      [m EXCEPT !.actions =
                          VecInsert(@, Min(s.selected_action[1] + 1, Len(@)), Delay(ms))])
             ELSE current_macro_mut(s, LAMBDA m :
                      [m EXCEPT !.actions = Append(@, Delay(ms))])
    IN [t EXCEPT !.insert_menu = "Closed"]

\* update(MacroMessage::InsertDelay(ms))
update_InsertDelay(s, ms) ==
    [current_macro_mut(s, LAMBDA m : [m EXCEPT !.actions = Append(@, Delay(ms))])
       EXCEPT !.insert_menu = "Closed"]

\* update(MacroMessage::ConfirmInsertDelay)
update_ConfirmInsertDelay(s) ==
    LET ms == unwrap_or(parse_unsigned(s.insert_delay_ms, U64_MAX), 100)
    IN [current_macro_mut(s, LAMBDA m : [m EXCEPT !.actions = Append(@, Delay(ms))])
          EXCEPT !.insert_menu = "Closed"]

\* update(MacroMessage::ShowContextMenu(menu_type))
update_ShowContextMenu(s, menu_type) == [s EXCEPT !.context_menu = menu_type]

\* update(MacroMessage::HideContextMenu)
update_HideContextMenu(s) == [s EXCEPT !.context_menu = ContextMenuNone]

\* update(MacroMessage::ContextMenuRename)
update_ContextMenuRename(s) == [s EXCEPT !.context_menu = ContextMenuNone]

\* update(MacroMessage::ContextMenuDelete) deleting whatever the target is.
update_ContextMenuDelete_always(s) ==
    [update_DeleteAction(update_DeleteMacro(s)) EXCEPT !.context_menu = ContextMenuNone]

\* update(MacroMessage::ContextMenuDelete)
update_ContextMenuDelete(s) ==
    LET t == IF s.context_menu.type = "MacroList" THEN update_DeleteMacro(s)
             ELSE IF s.context_menu.type = "KeysList" THEN update_DeleteAction(s)
             ELSE s
    IN [t EXCEPT !.context_menu = ContextMenuNone]

\* update(MacroMessage::ContextMenuChangeParam)
update_ContextMenuChangeParam(s) == [s EXCEPT !.context_menu = ContextMenuNone]

\* m.shortcut.get_or_insert(MacroShortcut::default())
get_or_insert(shortcut) ==
    IF shortcut = <<>> THEN MacroShortcut_default ELSE shortcut[1]

\* update(MacroMessage::ToggleCtrl(enabled))
update_ToggleCtrl(s, en) ==
    current_macro_mut(s, LAMBDA m :
        [m EXCEPT !.shortcut = <<[get_or_insert(m.shortcut) EXCEPT !.ctrl = en]>>])

\* update(MacroMessage::ToggleAlt(enabled))
update_ToggleAlt(s, en) ==
    current_macro_mut(s, LAMBDA m :
        [m EXCEPT !.shortcut = <<[get_or_insert(m.shortcut) EXCEPT !.alt = en]>>])

\* update(MacroMessage::ToggleShift(enabled))
update_ToggleShift(s, en) ==
    current_macro_mut(s, LAMBDA m :
        [m EXCEPT !.shortcut = <<[get_or_insert(m.shortcut) EXCEPT !.shift = en]>>])

\* update(MacroMessage::ToggleWin(enabled))
update_ToggleWin(s, en) ==
    current_macro_mut(s, LAMBDA m :
        [m EXCEPT !.shortcut = <<[get_or_insert(m.shortcut) EXCEPT !.win = en]>>])

\* update(MacroMessage::ShortcutKeyChanged(key)) storing the key as typed.
update_ShortcutKeyChanged_verbatim(s, key) ==
    current_macro_mut([s EXCEPT !.edit_shortcut_key = key], LAMBDA m :
        [m EXCEPT !.shortcut = <<[get_or_insert(m.shortcut) EXCEPT !.key = key]>>])

\* update(MacroMessage::ShortcutKeyChanged(key))
update_ShortcutKeyChanged(s, key) ==
    current_macro_mut([s EXCEPT !.edit_shortcut_key = key], LAMBDA m :
        [m EXCEPT !.shortcut = <<[get_or_insert(m.shortcut) EXCEPT !.key = to_uppercase(key)]>>])

\* update(MacroMessage::SetCycleMode(mode))
update_SetCycleMode(s, mode) ==
    current_macro_mut(s, LAMBDA m : [m EXCEPT !.cycle_mode = mode])

\* update(MacroMessage::CycleCountChanged(count)) with unwrap_or(0) in place
\* of the `if let Ok(n)`.
update_CycleCountChanged_zero(s, count) ==
    current_macro_mut([s EXCEPT !.edit_cycle_count = count], LAMBDA m :
        [m EXCEPT !.cycle_mode = Count(unwrap_or(parse_unsigned(count, U32_MAX), 0))])

\* update(MacroMessage::CycleCountChanged(count))
update_CycleCountChanged(s, count) ==
    LET t == [s EXCEPT !.edit_cycle_count = count]
        n == parse_unsigned(count, U32_MAX)
    IN IF n # <<>>
       THEN current_macro_mut(t, LAMBDA m : [m EXCEPT !.cycle_mode = Count(n[1])])
       ELSE t

\* update(MacroMessage::CycleUntilKeyChanged(key))
update_CycleUntilKeyChanged(s, key) ==
    current_macro_mut([s EXCEPT !.edit_cycle_key = key], LAMBDA m :
        [m EXCEPT !.cycle_mode = UntilKeyPressed(to_uppercase(key))])

\* update(MacroMessage::DismissRecordingWarning)
update_DismissRecordingWarning(s) == [s EXCEPT !.show_recording_warning = FALSE]

\* ------------------------------------------------------ macro_editor input
MacroNames == {""}

MouseButtons == {"Left"}

\* Texts typed into the X / Y fields of the Insert XY dialog.
CoordinateTexts ==
    {<<"-", "3">>, <<"x">>, <<"2", "1", "4", "7", "4", "8", "3", "6", "4", "8">>}

Coordinates == {7}

\* Texts typed into the delay field of the Insert Delay dialog.
DelayTexts ==
    {<<"2", "5">>, <<"-", "1">>,
     <<"1", "8", "4", "4", "6", "7", "4", "4", "0", "7",
       "3", "7", "0", "9", "5", "5", "1", "6", "1", "6">>}

DelayValues == {25}

ContextMenuTypes ==
    {ContextMenuNone} \cup {MacroList(i) : i \in 0..1} \cup {KeysList(i) : i \in 0..1}

ShortcutKeyTexts == {"a", "f1", ""}

CycleModes == {Once, Count(2), UntilKeyPressed("ESC")}

\* Texts typed into the cycle count field.
CountTexts ==
    {<<"3">>, <<"0">>, <<"+", "2">>, <<>>, <<"a">>, <<"-", "1">>, <<" ", "3">>,
     <<"4", "2", "9", "4", "9", "6", "7", "2", "9", "6">>}

\* ------------------------------------------------- macro_editor (commands)
\* The indices a SelectMacro / SelectAction command carries: update takes
\* any usize, the rows that exist and one past them are drawn.
MacroIndices == 0..MaxEditorMacros

ActionIndices == 0..MaxActions

\* The actions a recording delivers.
RecordedActions == {KeyPress("A", 0), KeyRelease("A", 0)}

\* What poll_actions / stop_recording hand over in one call.
Polled == SeqsUpTo(RecordedActions, 1)

\* The macro lists of the profiles the editor is opened on, for each group of
\* commands.
RecordingMacroSets ==
    {<<>>,
     <<MacroDefinition("Macro 1", TRUE, <<KeyPress("A", 0), Delay(100), KeyRelease("A", 0)>>,
                       <<>>, Once)>>,
     <<MacroDefinition("Macro 1", TRUE, <<KeyPress("A", 0)>>, <<>>, Once),
       MacroDefinition("Macro 2", TRUE, <<Delay(100), KeyRelease("A", 0)>>, <<>>, Once)>>}

RowsMacroSets ==
    {<<>>,
     <<MacroDefinition("Macro 1", TRUE, <<KeyPress("A", 0), Delay(100), KeyRelease("A", 0)>>,
                       <<>>, Once)>>,
     <<MacroDefinition("Macro 1", TRUE, <<KeyPress("A", 0)>>, <<>>, Once),
       MacroDefinition("Macro 2", TRUE, <<Delay(100), KeyRelease("A", 0)>>,
                       <<Shortcut(TRUE, FALSE, FALSE, FALSE, "A")>>, Count(2))>>}

InsertMacroSets ==
    {<<MacroDefinition("Macro 1", TRUE, <<KeyPress("A", 0), KeyRelease("A", 0)>>,
                       <<>>, Once)>>,
     <<MacroDefinition("Macro 1", TRUE, <<KeyPress("A", 0)>>, <<>>, Once)>>}

InsertDialogMacroSets ==
    {<<MacroDefinition("Macro 1", TRUE, <<KeyPress("A", 0), KeyRelease("A", 0)>>,
                       <<>>, Once)>>}

SettingsMacroSets ==
    {<<MacroDefinition("Macro 1", TRUE, <<KeyPress("A", 0)>>, <<>>, Once)>>,
     <<MacroDefinition("Macro 1", TRUE, <<KeyPress("A", 0)>>,
                       <<Shortcut(TRUE, FALSE, TRUE, FALSE, "F1")>>, Count(12))>>}

\* No recording session is being followed.
NoSession == [open |-> FALSE, macro |-> <<>>, recorded |-> <<>>]

\* The session a StartRecording command opens on editor state s.
SessionOpened(s) ==
    [open |-> TRUE,
     macro |-> IF HasCurrent(s) THEN s.selected_macro ELSE <<>>,
     recorded |-> <<>>]

\* The session after actions were delivered to the editor.
SessionRecorded(actions) ==
    IF session.open THEN [session EXCEPT !.recorded = @ \o actions] ELSE NoSession

\* The session after the StopRecording command that delivered actions.
SessionClosed(actions) ==
    IF session.open
    THEN [session EXCEPT !.recorded = @ \o actions, !.open = FALSE]
    ELSE NoSession

\* The editor state stays within the bounds of the model.
Fits(s) ==
    /\ Len(s.macros) <= MaxEditorMacros
    /\ \A i \in 1..Len(s.macros) : Len(s.macros[i].actions) <= MaxActions

\* The settings window handles message and the editor state becomes s.
Handle(message, s, sess) ==
    /\ Fits(s)
    /\ Len(sess.recorded) <= MaxRecorded
    /\ macro_editor_state' = s
    /\ last_message' = message
    /\ session' = sess
    /\ UNCHANGED <<host_vars, settings_proc, macro_vars, capture_vars>>

InitEditor ==
    /\ macro_editor_state = MacroEditorState_default
    /\ settings_proc = "running"
    /\ last_message = [type |-> "None"]
    /\ session = NoSession

MsgSelectMacro ==
    /\ settings_proc = "running"
    /\ \E index \in MacroIndices :
           Handle([type |-> "SelectMacro", index |-> index],
                  update_SelectMacro(macro_editor_state, index), NoSession)

MsgNewMacro ==
    /\ settings_proc = "running"
    /\ Handle([type |-> "NewMacro"], update_NewMacro(macro_editor_state), NoSession)

MsgRenameMacro ==
    /\ settings_proc = "running"
    /\ \E name \in MacroNames :
           Handle([type |-> "RenameMacro", name |-> name],
                  update_RenameMacro(macro_editor_state, name), NoSession)

MsgDeleteMacro ==
    /\ settings_proc = "running"
    /\ Handle([type |-> "DeleteMacro"], update_DeleteMacro(macro_editor_state), NoSession)

MsgToggleMacroEnabled ==
    /\ settings_proc = "running"
    /\ \E en \in BOOLEAN :
           Handle([type |-> "ToggleMacroEnabled", enabled |-> en],
                  update_ToggleMacroEnabled(macro_editor_state, en), NoSession)

\* Message::MacroMessage(StartRecording): the editor's part of the handler;
\* the recorder's part is StartRecording / StartRecordingIgnored.
MsgStartRecording ==
    /\ settings_proc = "running"
    /\ Handle([type |-> "StartRecording"], update_StartRecording(macro_editor_state),
              SessionOpened(macro_editor_state))

\* Message::MacroMessage(StopRecording): what stop_recording returned is
\* added to the current macro, then the editor handles the command.
MsgStopRecording ==
    /\ settings_proc = "running"
    /\ \E recorded_actions \in
              IF macro_editor_state.is_recording THEN Polled ELSE {<<>>} :
           Handle([type |-> "StopRecording", recorded_actions |-> recorded_actions],
                  update_StopRecording(
                      current_macro_mut(macro_editor_state, LAMBDA m :
                          [m EXCEPT !.actions = @ \o recorded_actions])),
                  SessionClosed(recorded_actions))

\* update(RecordedAction(action)), as RecordingTick makes it for each polled
\* action and as a late caller makes it after the recording has stopped.
MsgRecordedAction ==
    /\ settings_proc = "running"
    /\ \E action \in RecordedActions :
           Handle([type |-> "RecordedAction", action |-> action],
                  update_RecordedAction(macro_editor_state, action),
                  SessionRecorded(<<action>>))

MsgSelectAction ==
    /\ settings_proc = "running"
    /\ \E index \in ActionIndices :
           Handle([type |-> "SelectAction", index |-> index],
                  update_SelectAction(macro_editor_state, index), NoSession)

MsgDeleteAction ==
    /\ settings_proc = "running"
    /\ Handle([type |-> "DeleteAction"], update_DeleteAction(macro_editor_state), NoSession)

MsgChangeActionParameter ==
    /\ settings_proc = "running"
    /\ Handle([type |-> "ChangeActionParameter"],
              update_ChangeActionParameter(macro_editor_state), NoSession)

MsgOpenInsertMenu ==
    /\ settings_proc = "running"
    /\ Handle([type |-> "OpenInsertMenu"], update_OpenInsertMenu(macro_editor_state), NoSession)

MsgCloseInsertMenu ==
    /\ settings_proc = "running"
    /\ Handle([type |-> "CloseInsertMenu"], update_CloseInsertMenu(macro_editor_state), NoSession)

MsgInsertMousePrevious ==
    /\ settings_proc = "running"
    /\ ~InsertMousePreviousPanics(macro_editor_state)
    /\ \E button \in MouseButtons, is_press \in BOOLEAN :
           Handle([type |-> "InsertMousePrevious", button |-> button, is_press |-> is_press],
                  update_InsertMousePrevious(macro_editor_state, button, is_press),
                  NoSession)

\* Vec::insert panics on an index past the end: the panic unwinds out of
\* update and ends the settings process.
MsgInsertMousePreviousPanic ==
    /\ settings_proc = "running"
    /\ InsertMousePreviousPanics(macro_editor_state)
    /\ settings_proc' = "panicked"
    /\ last_message' = [type |-> "InsertMousePrevious"]
    /\ UNCHANGED <<host_vars, macro_editor_state, session, macro_vars, capture_vars>>

MsgInsertMouseAfter ==
    /\ settings_proc = "running"
    /\ \E button \in MouseButtons, is_press \in BOOLEAN :
           Handle([type |-> "InsertMouseAfter", button |-> button, is_press |-> is_press],
                  update_InsertMouseAfter(macro_editor_state, button, is_press), NoSession)

MsgInsertXYInputX ==
    /\ settings_proc = "running"
    /\ \E x \in CoordinateTexts :
           Handle([type |-> "InsertXYInputX", x |-> x],
                  update_InsertXYInputX(macro_editor_state, x), NoSession)

MsgInsertXYInputY ==
    /\ settings_proc = "running"
    /\ \E y \in CoordinateTexts :
           Handle([type |-> "InsertXYInputY", y |-> y],
                  update_InsertXYInputY(macro_editor_state, y), NoSession)

MsgConfirmInsertXY ==
    /\ settings_proc = "running"
    /\ Handle([type |-> "ConfirmInsertXY"], update_ConfirmInsertXY(macro_editor_state), NoSession)

MsgInsertXY ==
    /\ settings_proc = "running"
    /\ \E x \in Coordinates, y \in Coordinates :
           Handle([type |-> "InsertXY", x |-> x, y |-> y],
                  update_InsertXY(macro_editor_state, x, y), NoSession)

MsgInsertDelayInput ==
    /\ settings_proc = "running"
    /\ \E ms \in DelayTexts :
           Handle([type |-> "InsertDelayInput", ms |-> ms],
                  update_InsertDelayInput(macro_editor_state, ms), NoSession)

MsgConfirmInsertDelay ==
    /\ settings_proc = "running"
    /\ Handle([type |-> "ConfirmInsertDelay"],
              update_ConfirmInsertDelay(macro_editor_state), NoSession)

MsgInsertDelay ==
    /\ settings_proc = "running"
    /\ \E ms \in DelayValues :
           Handle([type |-> "InsertDelay", ms |-> ms],
                  update_InsertDelay(macro_editor_state, ms), NoSession)

MsgShowContextMenu ==
    /\ settings_proc = "running"
    /\ \E menu_type \in ContextMenuTypes :
           Handle([type |-> "ShowContextMenu", menu_type |-> menu_type],
                  update_ShowContextMenu(macro_editor_state, menu_type), NoSession)

MsgHideContextMenu ==
    /\ settings_proc = "running"
    /\ Handle([type |-> "HideContextMenu"], update_HideContextMenu(macro_editor_state), NoSession)

MsgContextMenuRename ==
    /\ settings_proc = "running"
    /\ Handle([type |-> "ContextMenuRename"],
              update_ContextMenuRename(macro_editor_state), NoSession)

MsgContextMenuDelete ==
    /\ settings_proc = "running"
    /\ Handle([type |-> "ContextMenuDelete", target |-> macro_editor_state.context_menu],
              update_ContextMenuDelete(macro_editor_state), NoSession)

MsgContextMenuChangeParam ==
    /\ settings_proc = "running"
    /\ Handle([type |-> "ContextMenuChangeParam"],
              update_ContextMenuChangeParam(macro_editor_state), NoSession)

MsgToggleCtrl ==
    /\ settings_proc = "running"
    /\ \E en \in BOOLEAN :
           Handle([type |-> "ToggleCtrl", enabled |-> en],
                  update_ToggleCtrl(macro_editor_state, en), NoSession)

MsgToggleAlt ==
    /\ settings_proc = "running"
    /\ \E en \in BOOLEAN :
           Handle([type |-> "ToggleAlt", enabled |-> en],
                  update_ToggleAlt(macro_editor_state, en), NoSession)

MsgToggleShift ==
    /\ settings_proc = "running"
    /\ \E en \in BOOLEAN :
           Handle([type |-> "ToggleShift", enabled |-> en],
                  update_ToggleShift(macro_editor_state, en), NoSession)

MsgToggleWin ==
    /\ settings_proc = "running"
    /\ \E en \in BOOLEAN :
           Handle([type |-> "ToggleWin", enabled |-> en],
                  update_ToggleWin(macro_editor_state, en), NoSession)

MsgShortcutKeyChanged ==
    /\ settings_proc = "running"
    /\ \E key \in ShortcutKeyTexts :
           Handle([type |-> "ShortcutKeyChanged", key |-> key],
                  update_ShortcutKeyChanged(macro_editor_state, key), NoSession)

MsgSetCycleMode ==
    /\ settings_proc = "running"
    /\ \E mode \in CycleModes :
           Handle([type |-> "SetCycleMode", mode |-> mode],
                  update_SetCycleMode(macro_editor_state, mode), NoSession)

MsgCycleCountChanged ==
    /\ settings_proc = "running"
    /\ \E count \in CountTexts :
           Handle([type |-> "CycleCountChanged", count |-> count],
                  update_CycleCountChanged(macro_editor_state, count), NoSession)

MsgCycleUntilKeyChanged ==
    /\ settings_proc = "running"
    /\ \E key \in ShortcutKeyTexts :
           Handle([type |-> "CycleUntilKeyChanged", key |-> key],
                  update_CycleUntilKeyChanged(macro_editor_state, key), NoSession)

MsgDismissRecordingWarning ==
    /\ settings_proc = "running"
    /\ Handle([type |-> "DismissRecordingWarning"],
              update_DismissRecordingWarning(macro_editor_state), NoSession)

\* ------------------------------------------------------------------- init
\* MacroAppState::default() and the locals of run_hotkey_loop at loop entry.
Init ==
    /\ config = <<>>
    /\ enabled = TRUE
    /\ executing = FALSE
    /\ proc = "running"
    /\ pc = "recv"
    /\ events = <<>>
    /\ hotkey_map = <<>>
    /\ registered_hotkeys = <<>>
    /\ os_hotkeys = {}
    /\ macro_name = ""
    /\ macro_def = <<>>
    /\ from_busy = FALSE
    /\ cycle = 0
    /\ idx = 0
    /\ out = <<>>
    /\ result = "none"
    /\ stop_pressed = FALSE
    /\ InitHost
    /\ InitEditor
    /\ InitCapture

\* ------------------------------------------------------------ IPC thread
\* process_message(ConfigUpdated(config))
IpcConfigUpdated ==
    /\ proc = "running"
    /\ \E c \in Configs : config' = c
    /\ UNCHANGED <<host_vars, editor_vars, capture_vars, enabled, executing, proc, pc, events, table_vars, macro_name,
                   macro_def, from_busy, exec_vars, stop_pressed>>

\* process_message(SetEnabled(enabled))
IpcSetEnabled ==
    /\ proc = "running"
    /\ \E b \in BOOLEAN : enabled' = b
    /\ UNCHANGED <<host_vars, editor_vars, capture_vars, config, executing, proc, pc, events, table_vars, macro_name,
                   macro_def, from_busy, exec_vars, stop_pressed>>

\* process_message(Shutdown): std::process::exit(0). The process ends and
\* its threads, its state and its OS registrations end with it.
IpcShutdown ==
    /\ proc = "running"
    /\ proc' = "exited"
    /\ config' = <<>> /\ enabled' = TRUE /\ executing' = FALSE
    /\ pc' = "recv" /\ events' = <<>>
    /\ hotkey_map' = <<>> /\ registered_hotkeys' = <<>> /\ os_hotkeys' = {}
    /\ macro_name' = "" /\ macro_def' = <<>> /\ from_busy' = FALSE
    /\ cycle' = 0 /\ idx' = 0 /\ out' = <<>> /\ result' = "none"
    /\ UNCHANGED <<host_vars, editor_vars, capture_vars, stop_pressed>>

\* ------------------------------------------------------------ environment
\* The user presses a hotkey the manager holds registered: the manager
\* sends GlobalHotKeyEvent{id} on the channel.
HotkeyPressed ==
    /\ proc = "running"
    /\ Len(events) < MaxQueue
    /\ \E hk \in os_hotkeys :
          events' = Append(events, [id |-> HotKeyId(hk), during |-> executing])
    /\ UNCHANGED <<host_vars, editor_vars, capture_vars, app_vars, proc, pc, table_vars, macro_name, macro_def,
                   from_busy, exec_vars, stop_pressed>>

\* The user presses the stop key of the UntilKeyPressed macro being executed.
StopKeyPressed ==
    /\ proc = "running"
    /\ pc \in {"call", "pass", "act"}
    /\ macro_def[1].cycle_mode.mode = "UntilKeyPressed"
    /\ ~stop_pressed
    /\ stop_pressed' = TRUE
    /\ UNCHANGED <<host_vars, editor_vars, capture_vars, app_vars, proc, pc, events, table_vars, macro_name, macro_def,
                   from_busy, exec_vars>>

\* ---------------------------------------------------------- dispatch loop
\* try_recv() finds the channel empty.
LoopRecvNone ==
    /\ proc = "running"
    /\ pc = "recv"
    /\ events = <<>>
    /\ pc' = "update"
    /\ UNCHANGED <<host_vars, editor_vars, capture_vars, app_vars, proc, events, table_vars, macro_name, macro_def,
                   from_busy, exec_vars, stop_pressed>>

\* try_recv() yields an event; hotkey_map.get(&event.id).
LoopRecvEvent ==
    /\ proc = "running"
    /\ pc = "recv"
    /\ events # <<>>
    /\ events' = Tail(events)
    /\ IF Head(events).id \in DOMAIN hotkey_map
       THEN /\ macro_name' = hotkey_map[Head(events).id]
            /\ from_busy' = Head(events).during
            /\ pc' = "check"
       ELSE /\ pc' = "update"
            /\ UNCHANGED <<host_vars, editor_vars, capture_vars, macro_name, from_busy>>
    /\ UNCHANGED <<host_vars, editor_vars, capture_vars, app_vars, proc, table_vars, macro_def, exec_vars, stop_pressed>>

\* should_execute = enabled && !executing, read under the lock.
should_execute == enabled /\ ~executing

LoopCheck ==
    /\ proc = "running"
    /\ pc = "check"
    /\ IF should_execute
       THEN pc' = "find" /\ UNCHANGED <<host_vars, editor_vars, capture_vars, macro_name, from_busy>>
       ELSE pc' = "update" /\ macro_name' = "" /\ from_busy' = FALSE
    /\ UNCHANGED <<host_vars, editor_vars, capture_vars, app_vars, proc, events, table_vars, macro_def, exec_vars,
                   stop_pressed>>

\* macro_to_execute = the first enabled macro of config named macro_name.
LoopFind ==
    /\ proc = "running"
    /\ pc = "find"
    /\ macro_def' = find_macro(config, macro_name)
    /\ IF find_macro(config, macro_name) # <<>>
       THEN pc' = "mark" /\ UNCHANGED <<host_vars, editor_vars, capture_vars, macro_name, from_busy>>
       ELSE pc' = "update" /\ macro_name' = "" /\ from_busy' = FALSE
    /\ UNCHANGED <<host_vars, editor_vars, capture_vars, app_vars, proc, events, table_vars, exec_vars, stop_pressed>>

\* "Mark as executing"
LoopMark ==
    /\ proc = "running"
    /\ pc = "mark"
    /\ executing' = TRUE
    /\ pc' = "call"
    /\ UNCHANGED <<host_vars, editor_vars, capture_vars, config, enabled, proc, events, table_vars, macro_name,
                   macro_def, from_busy, exec_vars, stop_pressed>>

\* executor.execute(&macro_def): entry, the match on cycle_mode.
ExecuteCall ==
    /\ proc = "running"
    /\ pc = "call"
    /\ cycle' = 0
    /\ idx' = 0
    /\ out' = <<>>
    /\ IF Passes(macro_def[1].cycle_mode) = 0
       THEN result' = "Ok" /\ pc' = "ret"
       ELSE result' = "none" /\ pc' = "pass"
    /\ UNCHANGED <<host_vars, editor_vars, capture_vars, app_vars, proc, events, table_vars, macro_name, macro_def,
                   from_busy, stop_pressed>>

\* execute_actions(): Enigo::new succeeds.
ExecutePass ==
    /\ proc = "running"
    /\ pc = "pass"
    /\ idx' = 1
    /\ pc' = "act"
    /\ UNCHANGED <<host_vars, editor_vars, capture_vars, app_vars, proc, events, table_vars, macro_name, macro_def,
                   from_busy, cycle, out, result, stop_pressed>>

\* execute_actions(): Enigo::new fails and .expect() panics on the main thread.
ExecutePanic ==
    /\ proc = "running"
    /\ pc = "pass"
    /\ proc' = "panicked"
    /\ UNCHANGED <<host_vars, editor_vars, capture_vars, app_vars, pc, events, table_vars, macro_name, macro_def,
                   from_busy, exec_vars, stop_pressed>>

\* One action of the sequence, its enigo call (if any) succeeding.
ExecuteActionOk ==
    /\ proc = "running"
    /\ pc = "act"
    /\ idx <= Len(macro_def[1].actions)
    /\ out' = out \o Issue(macro_def[1].actions[idx])
    /\ idx' = idx + 1
    /\ UNCHANGED <<host_vars, editor_vars, capture_vars, app_vars, proc, pc, events, table_vars, macro_name, macro_def,
                   from_busy, cycle, result, stop_pressed>>

\* One action of the sequence, its enigo call failing: `?` returns the error
\* from execute_actions and from execute.
ExecuteActionErr ==
    /\ proc = "running"
    /\ pc = "act"
    /\ idx <= Len(macro_def[1].actions)
    /\ Injects(macro_def[1].actions[idx])
    /\ result' = "Err"
    /\ pc' = "ret"
    /\ UNCHANGED <<host_vars, editor_vars, capture_vars, app_vars, proc, events, table_vars, macro_name, macro_def,
                   from_busy, cycle, idx, out, stop_pressed>>

\* execute_actions() returns Ok(()): the next pass, or execute() returns Ok(()).
ExecutePassEnd ==
    /\ proc = "running"
    /\ pc = "act"
    /\ idx > Len(macro_def[1].actions)
    /\ cycle' = cycle + 1
    /\ IF cycle + 1 < Passes(macro_def[1].cycle_mode)
       THEN pc' = "pass" /\ UNCHANGED result
       ELSE pc' = "ret" /\ result' = "Ok"
    /\ UNCHANGED <<host_vars, editor_vars, capture_vars, app_vars, proc, events, table_vars, macro_name, macro_def,
                   from_busy, idx, out, stop_pressed>>

\* Mutant of LoopDone: the error of execute() propagated with `?`, so that
\* "Mark as done" is skipped after an Err.
LoopDoneSkippedOnErr ==
    /\ proc = "running"
    /\ pc = "ret"
    /\ executing' = (result = "Err")
    /\ pc' = "update"
    /\ macro_name' = "" /\ macro_def' = <<>> /\ from_busy' = FALSE
    /\ cycle' = 0 /\ idx' = 0 /\ out' = <<>> /\ result' = "none"
    /\ UNCHANGED <<host_vars, editor_vars, capture_vars, config, enabled, proc, events, table_vars, stop_pressed>>

\* execute() has returned (an Err is logged): "Mark as done". The locals of
\* the iteration go out of scope.
LoopDone ==
    /\ proc = "running"
    /\ pc = "ret"
    /\ executing' = FALSE
    /\ pc' = "update"
    /\ macro_name' = "" /\ macro_def' = <<>> /\ from_busy' = FALSE
    /\ cycle' = 0 /\ idx' = 0 /\ out' = <<>> /\ result' = "none"
    /\ UNCHANGED <<host_vars, editor_vars, capture_vars, config, enabled, proc, events, table_vars, stop_pressed>>

\* `if needs_update` not taken; the 10 ms sleep; next iteration.
LoopNoUpdate ==
    /\ proc = "running"
    /\ pc = "update"
    /\ pc' = "recv"
    /\ UNCHANGED <<host_vars, editor_vars, capture_vars, app_vars, proc, events, table_vars, macro_name, macro_def,
                   from_busy, exec_vars, stop_pressed>>

\* The body of `if needs_update`: unregister, clear, register from config.
Rebuild(os, regs, macros, ufail, rfail) ==
    RegisterAll(macros,
                [os |-> UnregisterAll(os, regs, ufail), map |-> <<>>, regs |-> <<>>],
                rfail)

LoopRebuild ==
    /\ proc = "running"
    /\ pc = "update"
    /\ \E ufail \in SUBSET Range(registered_hotkeys), rfail \in SUBSET Candidates(config) :
          LET st == Rebuild(os_hotkeys, registered_hotkeys, config, ufail, rfail)
          IN /\ os_hotkeys' = st.os
             /\ hotkey_map' = st.map
             /\ registered_hotkeys' = st.regs
    /\ pc' = "recv"
    /\ UNCHANGED <<host_vars, editor_vars, capture_vars, app_vars, proc, events, macro_name, macro_def, from_busy,
                   exec_vars, stop_pressed>>

\* --------------------------------------------------------- specifications
\* The IPC thread.
Ipc == IpcConfigUpdated \/ IpcSetEnabled \/ IpcShutdown

\* The program as shipped: needs_update is constantly false, so nothing is
\* ever registered and no hotkey event is ever delivered.
LoopShipped == LoopRecvNone \/ (~needs_update /\ LoopNoUpdate)

Next == Ipc \/ LoopShipped

Spec == Init /\ [][Next]_vars

\* The dispatch loop thread is scheduled (it only sleeps 10 ms per iteration).
FairSpec == Spec /\ WF_vars(LoopShipped)

\* The dispatch loop with the change detection signalling: the rebuild body
\* runs in some iterations.
Execute ==
    ExecuteCall \/ ExecutePass \/ ExecutePanic \/ ExecuteActionOk
    \/ ExecuteActionErr \/ ExecutePassEnd

Loop ==
    LoopRecvNone \/ LoopRecvEvent \/ LoopCheck \/ LoopFind \/ LoopMark
    \/ Execute \/ LoopDone \/ LoopNoUpdate \/ LoopRebuild

NextRebuild == Ipc \/ HotkeyPressed \/ Loop

SpecRebuild == Init /\ [][NextRebuild]_vars

FairSpecRebuild == SpecRebuild /\ WF_vars(Loop)

\* execute() applied to each macro of ExecMacros, called as the loop calls it.
InitExec ==
    /\ config = <<>>
    /\ enabled = TRUE
    /\ executing = TRUE
    /\ proc = "running"
    /\ pc = "call"
    /\ events = <<>>
    /\ hotkey_map = <<>>
    /\ registered_hotkeys = <<>>
    /\ os_hotkeys = {}
    /\ macro_name = ""
    /\ \E m \in ExecMacros : macro_def = <<m>>
    /\ from_busy = FALSE
    /\ cycle = 0
    /\ idx = 0
    /\ out = <<>>
    /\ result = "none"
    /\ stop_pressed = FALSE
    /\ InitHost
    /\ InitEditor
    /\ InitCapture

NextExec == Execute \/ StopKeyPressed

SpecExec == InitExec /\ [][NextExec]_vars

\* The thread that owns the InputRecorder and calls it.
Recorder ==
    StartRecording \/ StartRecordingIgnored \/ StopRecordingCall
    \/ StopRecordingReturn \/ PollActions

\* The listener threads.
InstallOk == \E k \in Threads : ListenerInstallOk(k)

InstallErr == \E k \in Threads : ListenerInstallErr(k)

PumpCheck == \E k \in Threads : ListenerCheck(k)

PumpStop == \E k \in Threads : ListenerStop(k)

PumpHook == \E k \in Threads : ListenerPeekHook(k)

PumpNone == \E k \in Threads : ListenerPeekNone(k)

Listener == InstallOk \/ InstallErr \/ PumpCheck \/ PumpStop \/ PumpHook \/ PumpNone

NextRecorder == Recorder \/ Listener

\* The recording session: the InputRecorder, its caller and its listeners.
SpecRecorder == Init /\ [][NextRecorder]_vars

\* The hook module of the macro crate, called as InputListener calls it.
KeyboardHooks ==
    InstallKeyboardHookOk \/ InstallKeyboardHookErr \/ UninstallKeyboardHook
    \/ KeyboardProc \/ KeyboardRecv

MouseHooks ==
    InstallMouseHookOk \/ InstallMouseHookErr \/ UninstallMouseHook
    \/ MouseProc \/ MouseRecv

NextHooks == KeyboardHooks \/ MouseHooks

SpecHooks == Init /\ [][NextHooks]_vars

\* The contexts the OS calls the hook callbacks in. Recorder: not started;
\* the listener pumping with its hook installed and the session Recording;
\* the same with the session already stopped and the receiver dropped.
RecorderContexts ==
    { [is_recording |-> FALSE, receiver |-> 0, stop_chan |-> {},
       was_recording |-> FALSE, listener |-> "unspawned", hooks |-> {},
       last_call |-> [op |-> "new", log |-> "", ret |-> <<>>]],
      [is_recording |-> TRUE, receiver |-> 1, stop_chan |-> {},
       was_recording |-> FALSE, listener |-> "peek", hooks |-> {1},
       last_call |-> [op |-> "start_recording", log |-> "Recording started",
                      ret |-> <<>>]],
      [is_recording |-> FALSE, receiver |-> 0, stop_chan |-> {1},
       was_recording |-> TRUE, listener |-> "peek", hooks |-> {1},
       last_call |-> [op |-> "stop_recording", log |-> "", ret |-> <<>>]] }

\* Hook module: nothing installed; a hook installed with the sender
\* connected (channel empty or full), disconnected (a later install
\* failed), or absent (a later install was uninstalled and left this hook
\* behind).
SenderContexts(full) ==
    { [hook |-> 0, sender |-> <<>>, buffer |-> <<>>, hooks |-> {}],
      [hook |-> 1, sender |-> <<TRUE>>, buffer |-> <<>>, hooks |-> {1}],
      [hook |-> 1, sender |-> <<TRUE>>, buffer |-> full, hooks |-> {1}],
      [hook |-> 1, sender |-> <<FALSE>>, buffer |-> <<>>, hooks |-> {1}],
      [hook |-> 0, sender |-> <<>>, buffer |-> <<>>, hooks |-> {1}] }

FullKeyboardChan == [i \in 1..BufferSize |-> KeyboardData(65, "Down")]

FullMouseChan == [i \in 1..BufferSize |-> new_click("Left", "Down", <<0, 0>>)]

\* One of the three hooks is installed, in one of its contexts.
InitHookProcs ==
    /\ config = <<>>
    /\ enabled = TRUE
    /\ executing = FALSE
    /\ proc = "running"
    /\ pc = "recv"
    /\ events = <<>>
    /\ hotkey_map = <<>>
    /\ registered_hotkeys = <<>>
    /\ os_hotkeys = {}
    /\ macro_name = ""
    /\ macro_def = <<>>
    /\ from_busy = FALSE
    /\ cycle = 0
    /\ idx = 0
    /\ out = <<>>
    /\ result = "none"
    /\ stop_pressed = FALSE
    /\ InitHost
    /\ InitEditor
    /\ \E c \in RecorderContexts :
          /\ is_recording = c.is_recording
          /\ receiver = c.receiver
          /\ stop_signal = c.receiver
          /\ stop_chan = c.stop_chan
          /\ was_recording = c.was_recording
          /\ last_call = c.last_call
          /\ listener = [k \in Threads |-> IF k = 1 THEN c.listener ELSE "unspawned"]
          /\ hooks = c.hooks
    /\ chan = <<>>
    /\ gui_pc = "idle"
    /\ captured = <<>>
    /\ returned = <<>>
    /\ hook_call = [proc |-> "none"]
    /\ \E c \in SenderContexts(FullKeyboardChan) :
          /\ KEYBOARD_HOOK = c.hook
          /\ KEYBOARD_SENDER = c.sender
          /\ keyboard_chan = c.buffer
          /\ keyboard_hooks = c.hooks
    /\ \E c \in SenderContexts(FullMouseChan) :
          /\ MOUSE_HOOK = c.hook
          /\ MOUSE_SENDER = c.sender
          /\ mouse_chan = c.buffer
          /\ mouse_hooks = c.hooks
    /\ LAST_MOUSE_POS = <<0, 0>>
    /\ Cardinality(hooks) + Cardinality(keyboard_hooks) + Cardinality(mouse_hooks) = 1

NextHookProcs == PumpHook \/ PumpCheck \/ KeyboardProc \/ MouseProc

\* The three hook callbacks called in each of these contexts.
SpecHookProcs == InitHookProcs /\ [][NextHookProcs]_vars

\* The raw actions optimize_actions is applied to on its own.
RawActions == {Delay(20), Delay(40), KeyPress("A", 0), KeyRelease("A", 0)}

RawSeqs == SeqsUpTo(RawActions, MaxRaw)

\* stop_recording about to drain a channel that holds any raw sequence.
InitOptimize ==
    /\ config = <<>>
    /\ enabled = TRUE
    /\ executing = FALSE
    /\ proc = "running"
    /\ pc = "recv"
    /\ events = <<>>
    /\ hotkey_map = <<>>
    /\ registered_hotkeys = <<>>
    /\ os_hotkeys = {}
    /\ macro_name = ""
    /\ macro_def = <<>>
    /\ from_busy = FALSE
    /\ cycle = 0
    /\ idx = 0
    /\ out = <<>>
    /\ result = "none"
    /\ stop_pressed = FALSE
    /\ InitHost
    /\ InitEditor
    /\ is_recording = FALSE
    /\ receiver = 1
    /\ stop_signal = 1
    /\ chan \in RawSeqs
    /\ stop_chan = {}
    /\ listener = [k \in Threads |-> IF k = 1 THEN "ended" ELSE "unspawned"]
    /\ hooks = {}
    /\ gui_pc = "stopping"
    /\ was_recording = TRUE
    /\ last_call = [op |-> "start_recording", log |-> "Recording started",
                    ret |-> <<>>]
    /\ captured = <<>>
    /\ returned = <<>>
    /\ hook_call = [proc |-> "none"]
    /\ InitHooks

NextOptimize == StopRecordingReturn

SpecOptimize == InitOptimize /\ [][NextOptimize]_vars

\* The editor opened on the macros of a profile (Message::NavigateTo).
InitEditorOpened(sets) ==
    /\ config = <<>>
    /\ enabled = TRUE
    /\ executing = FALSE
    /\ proc = "running"
    /\ pc = "recv"
    /\ events = <<>>
    /\ hotkey_map = <<>>
    /\ registered_hotkeys = <<>>
    /\ os_hotkeys = {}
    /\ macro_name = ""
    /\ macro_def = <<>>
    /\ from_busy = FALSE
    /\ cycle = 0
    /\ idx = 0
    /\ out = <<>>
    /\ result = "none"
    /\ stop_pressed = FALSE
    /\ InitHost
    /\ InitCapture
    /\ macro_editor_state \in {MacroEditorState_new(macros) : macros \in sets}
    /\ settings_proc = "running"
    /\ last_message = [type |-> "None"]
    /\ session = NoSession

\* The recording commands of the editor.
NextRecording ==
    \/ MsgSelectMacro
    \/ MsgStartRecording
    \/ MsgStopRecording
    \/ MsgRecordedAction
    \/ MsgDismissRecordingWarning

InitRecording == InitEditorOpened(RecordingMacroSets)

SpecRecording == InitRecording /\ [][NextRecording]_vars

\* The row commands of the editor: selection, deletion, context menu.
NextRows ==
    \/ MsgSelectMacro
    \/ MsgNewMacro
    \/ MsgDeleteMacro
    \/ MsgSelectAction
    \/ MsgDeleteAction
    \/ MsgChangeActionParameter
    \/ MsgShowContextMenu
    \/ MsgHideContextMenu
    \/ MsgContextMenuRename
    \/ MsgContextMenuDelete
    \/ MsgContextMenuChangeParam

InitRows == InitEditorOpened(RowsMacroSets)

SpecRows == InitRows /\ [][NextRows]_vars

\* The Insert Event commands of the editor.
NextInsert ==
    \/ MsgSelectMacro
    \/ MsgSelectAction
    \/ MsgOpenInsertMenu
    \/ MsgCloseInsertMenu
    \/ MsgInsertMousePrevious
    \/ MsgInsertMousePreviousPanic
    \/ MsgInsertMouseAfter
    \/ MsgInsertXY
    \/ MsgInsertDelay

InitInsert == InitEditorOpened(InsertMacroSets)

SpecInsert == InitInsert /\ [][NextInsert]_vars

\* The Insert XY and Insert Delay dialogs of the editor.
NextInsertDialog ==
    \/ MsgSelectMacro
    \/ MsgSelectAction
    \/ MsgInsertXYInputX
    \/ MsgInsertXYInputY
    \/ MsgConfirmInsertXY
    \/ MsgInsertDelayInput
    \/ MsgConfirmInsertDelay

InitInsertDialog == InitEditorOpened(InsertDialogMacroSets)

SpecInsertDialog == InitInsertDialog /\ [][NextInsertDialog]_vars

\* The enable and shortcut commands of the settings panel.
NextShortcut ==
    \/ MsgSelectMacro
    \/ MsgToggleMacroEnabled
    \/ MsgToggleCtrl
    \/ MsgToggleAlt
    \/ MsgToggleShift
    \/ MsgToggleWin
    \/ MsgShortcutKeyChanged

InitSettings == InitEditorOpened(SettingsMacroSets)

SpecShortcut == InitSettings /\ [][NextShortcut]_vars

\* The name and repeat policy commands of the settings panel.
NextCycle ==
    \/ MsgSelectMacro
    \/ MsgRenameMacro
    \/ MsgSetCycleMode
    \/ MsgCycleCountChanged
    \/ MsgCycleUntilKeyChanged

SpecCycle == InitSettings /\ [][NextCycle]_vars

clock_vars == <<now, HOOK_LAST_TIME>>

listener_vars == <<running, message_thread, stop_pc, thread_msgs>>

\* No InputListener has been constructed.
InitListener ==
    /\ running = FALSE
    /\ message_thread = "unspawned"
    /\ stop_pc = "idle"
    /\ thread_msgs = <<>>

\* HOOK_LAST_TIME is set to Instant::now() when the listener thread starts.
InitClock ==
    /\ now = 0
    /\ HOOK_LAST_TIME = 0

\* ------------------------------------------------- macro_config (validate)
\* A String is the sequence of its characters; the characters drawn are
\* "a" and two that are not ASCII, U+00E9 and U+8A9E.

\* char::len_utf8: the number of bytes of the character's UTF-8 encoding.
len_utf8(c) ==
    CASE c = "a" -> 1
      [] c = "U+00E9" -> 2
      [] c = "U+8A9E" -> 3

\* String::len: the length of the string in bytes.
RECURSIVE str_len(_)
str_len(s) == IF s = <<>> THEN 0 ELSE len_utf8(Head(s)) + str_len(Tail(s))

\* String::is_empty
str_is_empty(s) == str_len(s) = 0

\* MacroDefinition::validate: "Ok" or the message of the Err.
validate(m) ==
    IF str_is_empty(m.name) THEN "Macro name cannot be empty"
    ELSE IF str_len(m.name) > NAME_LEN_LIMIT
    THEN "Macro name must be 50 characters or less"
    ELSE IF m.actions = <<>> THEN "Macro must have at least one action"
    ELSE IF m.shortcut # <<>> /\ ~is_valid(m.shortcut[1])
    THEN "Shortcut must have at least one modifier and a key"
    ELSE "Ok"

\* The string of n characters c.
StringOf(c, n) == [i \in 1..n |-> c]

\* Names around the limit, in ASCII and not.
ValidateNames ==
    {StringOf("a", n) : n \in {0, 1, 50, 51}}
        \cup {StringOf("U+00E9", n) : n \in {25, 26}}
        \cup {StringOf("a", 48) \o <<"U+8A9E">>}

ValidateActions == {<<>>, <<KeyPress("A", 0)>>}

ValidateShortcuts ==
    {<<>>} \cup {<<Shortcut(c, a, s, w, k)>> : c \in BOOLEAN, a \in BOOLEAN,
                                               s \in BOOLEAN, w \in BOOLEAN,
                                               k \in {"", "A"}}

ValidateMacros ==
    {MacroDefinition(n, TRUE, acts, sc, Once) :
        n \in ValidateNames, acts \in ValidateActions, sc \in ValidateShortcuts}

\* The dispatcher process before anything happened (as in Init).
InitDispatcher ==
    /\ config = <<>>
    /\ enabled = TRUE
    /\ executing = FALSE
    /\ proc = "running"
    /\ pc = "recv"
    /\ events = <<>>
    /\ hotkey_map = <<>>
    /\ registered_hotkeys = <<>>
    /\ os_hotkeys = {}
    /\ macro_name = ""
    /\ macro_def = <<>>
    /\ from_busy = FALSE
    /\ cycle = 0
    /\ idx = 0
    /\ out = <<>>
    /\ result = "none"
    /\ stop_pressed = FALSE

\* validate() about to be called on any of the macros.
InitValidate ==
    /\ InitDispatcher
    /\ InitEditor
    /\ InitCapture
    /\ validate_call \in {[macro |-> <<m>>, ret |-> "none"] : m \in ValidateMacros}
    /\ selected_profile_index = <<>>
    /\ profiles = <<>>
    /\ disk = <<>>
    /\ InitClock
    /\ event = <<>>
    /\ InitListener

\* macro.validate()
Validate ==
    /\ validate_call.ret = "none"
    /\ validate_call.macro # <<>>
    /\ validate_call' = [validate_call EXCEPT !.ret = validate(validate_call.macro[1])]
    /\ UNCHANGED <<macro_vars, capture_vars, editor_vars, selected_profile_index,
                   profiles, disk, clock_vars, event, listener_vars>>

NextValidate == Validate

SpecValidate == InitValidate /\ [][NextValidate]_vars

\* ------------------------------------------------ gui/mod.rs (macros page)
\* One profile, with no macros yet.
NewProfile == [macros |-> <<>>]

\* update(Message::NavigateTo(Page::Macros)): the editor is replaced by one
\* opened on the selected profile's macros, or by the default one.
NavigateToMacros ==
    /\ settings_proc = "running"
    /\ macro_editor_state' =
           IF selected_profile_index # <<>>
           THEN IF selected_profile_index[1] < Len(profiles)
                THEN MacroEditorState_new(profiles[selected_profile_index[1] + 1].macros)
                ELSE macro_editor_state
           ELSE MacroEditorState_default
    /\ last_message' = [type |-> "NavigateTo"]
    /\ session' = NoSession
    /\ UNCHANGED <<settings_proc, host_vars, macro_vars, capture_vars>>

\* update(Message::SaveMacros): the editor's macros replace the selected
\* profile's and the profiles are written to disk; save_profiles_to_disk
\* writes nothing without a data directory or when save_profiles fails.
SaveMacros ==
    /\ settings_proc = "running"
    /\ last_message' = [type |-> "SaveMacros"]
    /\ IF selected_profile_index # <<>> /\ selected_profile_index[1] < Len(profiles)
       THEN /\ profiles' = [profiles EXCEPT ![selected_profile_index[1] + 1].macros =
                                macro_editor_state.macros]
            /\ \E written \in BOOLEAN : disk' = IF written THEN <<profiles'>> ELSE disk
       ELSE UNCHANGED <<profiles, disk>>
    /\ UNCHANGED <<macro_editor_state, settings_proc, session, validate_call,
                   selected_profile_index, clock_vars, event, listener_vars,
                   macro_vars, capture_vars>>

\* The settings window with one profile, selected or not, and the default editor.
InitSave ==
    /\ InitDispatcher
    /\ InitEditor
    /\ InitCapture
    /\ validate_call = [macro |-> <<>>, ret |-> "none"]
    /\ selected_profile_index \in {<<>>, <<0>>}
    /\ profiles = <<NewProfile>>
    /\ disk = <<>>
    /\ InitClock
    /\ event = <<>>
    /\ InitListener

NextSave ==
    \/ NavigateToMacros
    \/ SaveMacros
    \/ MsgNewMacro
    \/ MsgRenameMacro
    \/ MsgInsertDelay

SpecSave == InitSave /\ [][NextSave]_vars

\* ------------------------------------- input_recorder (the hook's clock)
\* Time passes.
ClockTick ==
    /\ \E d \in {5, 6} : now + d <= MaxClock /\ now' = now + d
    /\ UNCHANGED <<macro_vars, capture_vars, editor_vars, validate_call,
                   selected_profile_index, profiles, disk, HOOK_LAST_TIME,
                   event, listener_vars>>

\* Whether keyboard_hook_proc on thread k reaches the HOOK_LAST_TIME block
\* for event e: a key-down or key-up with HC_ACTION while the thread's
\* HOOK_RECORDING is set and its HOOK_TX holds the sender.
Captures(k, e) ==
    /\ e.code = HC_ACTION
    /\ e.msg \in {"WM_KEYDOWN", "WM_SYSKEYDOWN", "WM_KEYUP", "WM_SYSKEYUP"}
    /\ HOOK_RECORDING(k)
    /\ HOOK_TX(k) # <<>>

\* The timed hook call without `*last_time.borrow_mut() = now`.
TimedKeyboardHookNoReset(k) ==
    /\ listener[k] = "peek"
    /\ Len(captured) < MaxKeys
    /\ \E e \in KeyEvents : keyboard_hook_proc(k, e, now - HOOK_LAST_TIME)
    /\ listener' = [listener EXCEPT ![k] = "check"]
    /\ UNCHANGED <<macro_vars, editor_vars, keyboard_vars, mouse_vars, is_recording,
                   receiver, stop_signal, stop_chan, hooks, gui_pc, was_recording,
                   last_call, returned, validate_call, selected_profile_index,
                   profiles, disk, now, HOOK_LAST_TIME, event, listener_vars>>

\* Message pump: the OS calls the thread's hook for a key event at time
\* now; delay_ms is the time since HOOK_LAST_TIME, which becomes now when the
\* event is captured.
TimedKeyboardHook(k) ==
    /\ listener[k] = "peek"
    /\ Len(captured) < MaxKeys
    /\ \E e \in KeyEvents :
           /\ keyboard_hook_proc(k, e, now - HOOK_LAST_TIME)
           /\ HOOK_LAST_TIME' = IF Captures(k, e) THEN now ELSE HOOK_LAST_TIME
    /\ listener' = [listener EXCEPT ![k] = "check"]
    /\ UNCHANGED <<macro_vars, editor_vars, keyboard_vars, mouse_vars, is_recording,
                   receiver, stop_signal, stop_chan, hooks, gui_pc, was_recording,
                   last_call, returned, validate_call, selected_profile_index,
                   profiles, disk, now, event, listener_vars>>

PumpTimedHook == \E k \in Threads : TimedKeyboardHook(k)

\* The listener thread of a Recording session pumping, its hook installed,
\* at the time its thread-local slots were set.
InitHookClock ==
    /\ InitDispatcher
    /\ InitEditor
    /\ InitHooks
    /\ is_recording = TRUE
    /\ receiver = 1
    /\ stop_signal = 1
    /\ chan = <<>>
    /\ stop_chan = {}
    /\ listener = [k \in Threads |-> IF k = 1 THEN "peek" ELSE "unspawned"]
    /\ hooks = {1}
    /\ gui_pc = "idle"
    /\ was_recording = FALSE
    /\ last_call = [op |-> "start_recording", log |-> "Recording started", ret |-> <<>>]
    /\ captured = <<>>
    /\ returned = <<>>
    /\ hook_call = [proc |-> "none"]
    /\ validate_call = [macro |-> <<>>, ret |-> "none"]
    /\ selected_profile_index = <<>>
    /\ profiles = <<>>
    /\ disk = <<>>
    /\ InitClock
    /\ event = <<>>
    /\ InitListener

NextHookClock == ClockTick \/ PumpTimedHook \/ PumpCheck \/ PumpNone

SpecHookClock == InitHookClock /\ [][NextHookClock]_vars

\* ------------------------------------ macro_editor (recording and rows)
\* The commands the macro list and the recording button send.
NextRecordingRows ==
    \/ MsgSelectMacro
    \/ MsgNewMacro
    \/ MsgDeleteMacro
    \/ MsgStartRecording
    \/ MsgStopRecording
    \/ MsgRecordedAction

SpecRecordingRows == InitRecording /\ [][NextRecordingRows]_vars


\* ------------------------------ hotkey_manager (macros sharing one name)
CtrlB == Shortcut(TRUE, FALSE, FALSE, FALSE, "B")

\* Two enabled macros the editor left with the same name ("Macro {}" counts
\* the macros, RenameMacro takes any name) and different shortcuts.
SameNameMacros ==
    <<MacroDefinition("Macro 2", TRUE, <<KeyPress("A", 0)>>, <<CtrlA>>, Once),
      MacroDefinition("Macro 2", TRUE, <<Delay(20)>>, <<CtrlB>>, Once)>>

SameNameConfigs ==
    {<<>>, <<SameNameMacros[1]>>, <<SameNameMacros[2]>>, SameNameMacros}

\* process_message(ConfigUpdated(config)) with the macros of such a profile.
IpcConfigUpdatedSameName ==
    /\ proc = "running"
    /\ \E c \in SameNameConfigs : config' = c
    /\ UNCHANGED <<host_vars, editor_vars, capture_vars, enabled, executing, proc, pc, events,
                   table_vars, macro_name, macro_def, from_busy, exec_vars, stop_pressed>>

\* try_recv() yields an event, kept in `event` for the iteration;
\* hotkey_map.get(&event.id).
LoopRecvEventId ==
    /\ proc = "running"
    /\ pc = "recv"
    /\ events # <<>>
    /\ events' = Tail(events)
    /\ event' = <<Head(events).id>>
    /\ IF Head(events).id \in DOMAIN hotkey_map
       THEN /\ macro_name' = hotkey_map[Head(events).id]
            /\ from_busy' = Head(events).during
            /\ pc' = "check"
       ELSE /\ pc' = "update"
            /\ UNCHANGED <<macro_name, from_busy>>
    /\ UNCHANGED <<validate_call, selected_profile_index, profiles, disk, clock_vars,
                   listener_vars, editor_vars, capture_vars, app_vars, proc, table_vars,
                   macro_def, exec_vars, stop_pressed>>

NextSameName ==
    IpcConfigUpdatedSameName \/ HotkeyPressed \/ LoopRecvNone \/ LoopRecvEventId
    \/ LoopCheck \/ LoopFind \/ LoopMark \/ Execute \/ LoopDone \/ LoopNoUpdate
    \/ LoopRebuild

\* The dispatch loop serving a profile whose macros share a name.
SpecSameName == Init /\ [][NextSameName]_vars

\* ----------------------------- settings host (recording, gui/mod.rs update)
\* `for action in actions { update(RecordedAction(action)) }`
RECURSIVE update_each_RecordedAction(_, _)
update_each_RecordedAction(s, actions) ==
    IF actions = <<>> THEN s
    ELSE update_each_RecordedAction(update_RecordedAction(s, Head(actions)), Tail(actions))

\* Message::MacroMessage(StartRecording) from the Record button (shown while
\* the editor is not recording): the editor handles the command, then
\* input_recorder.start_recording().
HostStartRecording ==
    /\ settings_proc = "running"
    /\ gui_pc = "idle"
    /\ ~macro_editor_state.is_recording
    /\ NextThread \in Threads
    /\ Fits(update_StartRecording(macro_editor_state))
    /\ macro_editor_state' = update_StartRecording(macro_editor_state)
    /\ last_message' = [type |-> "StartRecording"]
    /\ session' = SessionOpened(macro_editor_state)
    /\ IF is_recording
       THEN /\ last_call' = [op |-> "start_recording", log |-> "Already recording",
                             ret |-> <<>>]
            /\ UNCHANGED <<receiver, stop_signal, chan, is_recording, listener>>
       ELSE /\ receiver' = NextThread
            /\ stop_signal' = NextThread
            /\ chan' = <<>>
            /\ is_recording' = TRUE
            /\ listener' = [listener EXCEPT ![NextThread] = "spawned"]
            /\ last_call' = [op |-> "start_recording", log |-> "Recording started",
                             ret |-> <<>>]
    /\ UNCHANGED <<host_vars, settings_proc, macro_vars, keyboard_vars, mouse_vars, stop_chan,
                   hooks, gui_pc, was_recording, captured, returned, hook_call>>

\* Message::RecordingTick: while the editor records, poll_actions() and one
\* RecordedAction command per polled action.
HostRecordingTick ==
    /\ settings_proc = "running"
    /\ gui_pc = "idle"
    /\ macro_editor_state.is_recording
    /\ LET actions == IF receiver # 0 THEN chan ELSE <<>>
       IN /\ Fits(update_each_RecordedAction(macro_editor_state, actions))
          /\ macro_editor_state' = update_each_RecordedAction(macro_editor_state, actions)
          /\ last_message' = [type |-> "RecordingTick", actions |-> actions]
          /\ session' = SessionRecorded(actions)
          /\ last_call' = [op |-> "poll_actions", log |-> "", ret |-> actions]
          /\ returned' = returned \o actions
    /\ chan' = <<>>
    /\ UNCHANGED <<host_vars, settings_proc, macro_vars, keyboard_vars, mouse_vars, is_recording,
                   receiver, stop_signal, stop_chan, listener, hooks, gui_pc, was_recording,
                   captured, hook_call>>

\* Message::MacroMessage(StopRecording) from the Stop button (shown while
\* the editor records), up to the sleep inside stop_recording().
HostStopRecordingCall ==
    /\ settings_proc = "running"
    /\ macro_editor_state.is_recording
    /\ StopRecordingCall

\* The rest of the handler: stop_recording() drains and returns the optimized
\* actions, the current macro is extended by them, the editor handles the
\* command.
HostStopRecordingReturn ==
    /\ settings_proc = "running"
    /\ gui_pc = "stopping"
    /\ LET recorded_actions == optimize_actions(IF receiver # 0 THEN chan ELSE <<>>)
           extended == current_macro_mut(macro_editor_state, LAMBDA m :
                           [m EXCEPT !.actions = @ \o recorded_actions])
       IN /\ Fits(extended)
          /\ macro_editor_state' = update_StopRecording(extended)
          /\ last_message' = [type |-> "StopRecording", recorded_actions |-> recorded_actions]
          /\ session' = SessionClosed(recorded_actions)
          /\ last_call' = [op |-> "stop_recording", log |-> "", ret |-> recorded_actions]
          /\ returned' = returned \o recorded_actions
    /\ chan' = <<>>
    /\ receiver' = 0
    /\ stop_signal' = 0
    /\ gui_pc' = "idle"
    /\ UNCHANGED <<host_vars, settings_proc, macro_vars, keyboard_vars, mouse_vars, is_recording,
                   stop_chan, listener, hooks, was_recording, captured, hook_call>>

NextHostRecording ==
    HostStartRecording \/ HostRecordingTick \/ HostStopRecordingCall
    \/ HostStopRecordingReturn \/ Listener

\* The settings window recording into the editor: the Record and Stop
\* buttons, the tick subscription and the listener threads.
SpecHostRecording == Init /\ [][NextHostRecording]_vars

\* ------------------------------------------ input_hooks (InputListener)
\* ListenerConfig::keyboard_only(), mouse_only(), all()
ListenerConfigs ==
    {[keyboard |-> TRUE, mouse |-> FALSE], [keyboard |-> FALSE, mouse |-> TRUE],
     [keyboard |-> TRUE, mouse |-> TRUE]}

\* The messages the OS or another thread posts to the message loop thread.
ThreadMessages == {"WM_QUIT", "WM_TIMER"}

\* InputListener::new(config) returning Ok: the hooks the config asks for are
\* installed by the caller, running is set and the message loop thread is
\* spawned.
ListenerNewOk ==
    /\ message_thread = "unspawned"
    /\ stop_pc = "idle"
    /\ \E listener_config \in ListenerConfigs :
           /\ IF listener_config.keyboard
              THEN /\ FreeHandle(keyboard_hooks) # 0
                   /\ KEYBOARD_SENDER' = <<TRUE>>
                   /\ keyboard_chan' = <<>>
                   /\ keyboard_hooks' = keyboard_hooks \cup {FreeHandle(keyboard_hooks)}
                   /\ KEYBOARD_HOOK' = FreeHandle(keyboard_hooks)
              ELSE UNCHANGED keyboard_vars
           /\ IF listener_config.mouse
              THEN /\ FreeHandle(mouse_hooks) # 0
                   /\ MOUSE_SENDER' = <<TRUE>>
                   /\ mouse_chan' = <<>>
                   /\ mouse_hooks' = mouse_hooks \cup {FreeHandle(mouse_hooks)}
                   /\ MOUSE_HOOK' = FreeHandle(mouse_hooks)
                   /\ UNCHANGED LAST_MOUSE_POS
              ELSE UNCHANGED mouse_vars
    /\ running' = TRUE
    /\ message_thread' = "check"
    /\ UNCHANGED <<validate_call, selected_profile_index, profiles, disk, clock_vars, event,
                   stop_pc, thread_msgs, editor_vars, macro_vars, rec_vars, hook_call>>

\* run_message_loop: `if !*running.lock() { break; }`, else GetMessageW is
\* called.
MessageLoopCheck ==
    /\ message_thread = "check"
    /\ message_thread' = IF running THEN "GetMessageW" ELSE "ended"
    /\ UNCHANGED <<validate_call, selected_profile_index, profiles, disk, clock_vars, event,
                   running, stop_pc, thread_msgs, editor_vars, macro_vars, capture_vars>>

\* GetMessageW(&mut msg, None, 0, 0) returns once the thread's queue holds a
\* message: 0 for WM_QUIT, and the loop breaks. (-1 is returned for an
\* invalid window handle or message pointer, which this call does not pass.)
MessageLoopQuit ==
    /\ message_thread = "GetMessageW"
    /\ thread_msgs # <<>>
    /\ Head(thread_msgs) = "WM_QUIT"
    /\ thread_msgs' = Tail(thread_msgs)
    /\ message_thread' = "ended"
    /\ UNCHANGED <<validate_call, selected_profile_index, profiles, disk, clock_vars, event,
                   running, stop_pc, editor_vars, macro_vars, capture_vars>>

\* GetMessageW returns another message: TranslateMessage, DispatchMessageW,
\* next iteration.
MessageLoopDispatch ==
    /\ message_thread = "GetMessageW"
    /\ thread_msgs # <<>>
    /\ Head(thread_msgs) # "WM_QUIT"
    /\ thread_msgs' = Tail(thread_msgs)
    /\ message_thread' = "check"
    /\ UNCHANGED <<validate_call, selected_profile_index, profiles, disk, clock_vars, event,
                   running, stop_pc, editor_vars, macro_vars, capture_vars>>

\* The environment posts a message to the message loop thread (the listener
\* itself never does).
ThreadMessagePosted ==
    /\ message_thread \in {"check", "GetMessageW"}
    /\ Len(thread_msgs) < MaxMsgs
    /\ \E m \in ThreadMessages : thread_msgs' = Append(thread_msgs, m)
    /\ UNCHANGED <<validate_call, selected_profile_index, profiles, disk, clock_vars, event,
                   running, message_thread, stop_pc, editor_vars, macro_vars, capture_vars>>

\* InputListener::stop: `*self.running.lock() = false`
ListenerStopCall ==
    /\ message_thread # "unspawned"
    /\ stop_pc = "idle"
    /\ running' = FALSE
    /\ stop_pc' = "uninstall"
    /\ UNCHANGED <<validate_call, selected_profile_index, profiles, disk, clock_vars, event,
                   message_thread, thread_msgs, editor_vars, macro_vars, capture_vars>>

\* InputListener::stop: the installed hooks are uninstalled.
ListenerStopUninstall ==
    /\ stop_pc = "uninstall"
    /\ IF KEYBOARD_HOOK # 0
       THEN /\ keyboard_hooks' = keyboard_hooks \ {KEYBOARD_HOOK}
            /\ KEYBOARD_HOOK' = 0
            /\ KEYBOARD_SENDER' = <<>>
            /\ keyboard_chan' = <<>>
       ELSE UNCHANGED keyboard_vars
    /\ IF MOUSE_HOOK # 0
       THEN /\ mouse_hooks' = mouse_hooks \ {MOUSE_HOOK}
            /\ MOUSE_HOOK' = 0
            /\ MOUSE_SENDER' = <<>>
            /\ mouse_chan' = <<>>
            /\ UNCHANGED LAST_MOUSE_POS
       ELSE UNCHANGED mouse_vars
    /\ stop_pc' = "join"
    /\ UNCHANGED <<validate_call, selected_profile_index, profiles, disk, clock_vars, event,
                   running, message_thread, thread_msgs, editor_vars, macro_vars, rec_vars,
                   hook_call>>

\* InputListener::stop: `handle.join()` returns once the message loop thread
\* has ended.
ListenerStopJoin ==
    /\ stop_pc = "join"
    /\ message_thread = "ended"
    /\ stop_pc' = "returned"
    /\ UNCHANGED <<validate_call, selected_profile_index, profiles, disk, clock_vars, event,
                   running, message_thread, thread_msgs, editor_vars, macro_vars, capture_vars>>

MessageLoop == MessageLoopCheck \/ MessageLoopQuit \/ MessageLoopDispatch

ListenerStopping == ListenerStopCall \/ ListenerStopUninstall \/ ListenerStopJoin

NextListener ==
    ListenerNewOk \/ MessageLoop \/ ThreadMessagePosted \/ ListenerStopping

\* An InputListener, its message loop thread and its owner.
SpecListener == Init /\ [][NextListener]_vars

\* The message loop thread and the thread inside stop() are scheduled; no
\* message has to arrive.
FairSpecListener ==
    SpecListener /\ WF_vars(MessageLoop) /\ WF_vars(ListenerStopping)
\* ----------------------------------------------------------------- claims
\* The loop positions from the call of execute() to "Mark as done".
ExecutePcs == {"call", "pass", "act", "ret"}

\* C1: single-flight. The executing flag is true exactly while an execute()
\* call started by the loop has not been marked done, and the loop is never
\* about to start an execution while the flag is true.
C1_SingleFlight ==
    /\ executing <=> pc \in ExecutePcs
    /\ pc = "mark" => ~executing

\* C1 witness: an execution is in progress and a trigger has arrived
\* meanwhile, with an IPC config update already handled.
C1_Witness ==
    /\ executing
    /\ pc = "act"
    /\ events # <<>>
    /\ Head(events).during
    /\ config # <<>>

InConfig(m) == \E i \in 1..Len(config) : config[i] = m

\* The claim's condition for a macro to be registered: enabled, with a
\* shortcut that is valid and whose key name resolves.
Registrable(m) ==
    /\ m.enabled
    /\ m.shortcut # <<>>
    /\ is_valid(m.shortcut[1])
    /\ string_to_code(m.shortcut[1].key) # None

\* The table maps the identifier of the macro's hotkey to the macro's name.
HasEntry(map, m) ==
    /\ hotkey_of(m) # <<>>
    /\ HotKeyId(hotkey_of(m)[1]) \in DOMAIN map
    /\ map[HotKeyId(hotkey_of(m)[1])] = m.name

\* C5: after ConfigUpdated(S) is handled, the table is eventually rebuilt
\* from S: a registrable macro of the config eventually has its entry
\* (unless a later message removes it from the config first).
C5_RebuildFollowsConfigUpdated ==
    \A m \in ConfigMacros :
        (InConfig(m) /\ Registrable(m)) ~> (HasEntry(hotkey_map, m) \/ ~InConfig(m))

\* Every OS call of the rebuild step succeeded: each hotkey the config asks
\* for was newly registered and nothing else is left registered.
OsCallsSucceeded ==
    /\ Range(registered_hotkeys') = Candidates(config)
    /\ os_hotkeys' = Candidates(config)

IsPrefix(s, t) == Len(s) <= Len(t) /\ SubSeq(t, 1, Len(s)) = s

RECURSIVE Flatten(_)
Flatten(seqs) == IF seqs = <<>> THEN <<>> ELSE Head(seqs) \o Flatten(Tail(seqs))

RECURSIVE Repeat(_, _)
Repeat(seq, n) == IF n = 0 THEN <<>> ELSE seq \o Repeat(seq, n - 1)

\* The passes the repeat policy asks for: Once one, Count(n) n.
ClaimedPasses(cycle_mode) ==
    IF cycle_mode.mode = "Count" THEN cycle_mode.times ELSE 1

\* What the claimed passes issue: the actions' inputs and sleeps in
\* sequence order, once per pass.
ClaimedOutput(m) ==
    Repeat(Flatten([i \in 1..Len(m.actions) |-> Issue(m.actions[i])]),
           ClaimedPasses(m.cycle_mode))

PressA == [op |-> "key", key |-> "Unicode(a)", dir |-> "Press"]

ReleaseA == [op |-> "key", key |-> "Unicode(a)", dir |-> "Release"]

Sleep20 == [op |-> "sleep", ms |-> 20]

\* C8: with Once or Count(n), what execute() issues is at every moment a
\* prefix of the claimed passes, and when it returns Ok it has made exactly
\* the claimed number of passes in order; Burst with Count(3) issues press,
\* wait, release three times.
C8_RepeatPolicy ==
    macro_def # <<>> /\ pc \in ExecutePcs /\ pc # "call"
    /\ macro_def[1].cycle_mode.mode \in {"Once", "Count"} =>
        /\ IsPrefix(out, ClaimedOutput(macro_def[1]))
        /\ result = "Ok" =>
              /\ out = ClaimedOutput(macro_def[1])
              /\ cycle = ClaimedPasses(macro_def[1].cycle_mode)
        /\ result = "Ok" /\ macro_def[1].actions = Burst
           /\ macro_def[1].cycle_mode = Count(3) =>
              out = <<PressA, Sleep20, ReleaseA, PressA, Sleep20, ReleaseA,
                      PressA, Sleep20, ReleaseA>>

\* C8 witness: Burst with Count(3) has returned Ok after nine issued items.
C8_Witness ==
    /\ pc = "ret"
    /\ result = "Ok"
    /\ macro_def[1].actions = Burst
    /\ macro_def[1].cycle_mode = Count(3)
    /\ Len(out) = 9

\* C9: with UntilKeyPressed, execute() keeps starting passes until the stop
\* key is observed: it does not return before the key was pressed.
C9_RepeatsUntilKeyPressed ==
    macro_def # <<>> /\ macro_def[1].cycle_mode.mode = "UntilKeyPressed"
    /\ pc = "ret" => stop_pressed

\* C10: an injection failure is not fatal: execute() returns only after every
\* action of every pass has been executed, and returns Ok.
C10_InjectionFailureNonFatal ==
    macro_def # <<>> /\ macro_def[1].cycle_mode.mode \in {"Once", "Count"}
    /\ pc = "ret" =>
        /\ result = "Ok"
        /\ cycle = ClaimedPasses(macro_def[1].cycle_mode)

\* A key action whose key name does not resolve to a known key.
Unresolved(action) ==
    /\ action.type \in {"KeyPress", "KeyRelease"}
    /\ string_to_enigo_key(action.key) = None

\* The sequence as if its unresolved key actions were absent, their own
\* settle delays aside.
RECURSIVE WithoutUnresolved(_)
WithoutUnresolved(actions) ==
    IF actions = <<>> THEN <<>>
    ELSE (IF Unresolved(Head(actions))
          THEN (IF Head(actions).delay_ms > 0
                THEN <<Delay(Head(actions).delay_ms)>> ELSE <<>>)
          ELSE <<Head(actions)>>)
         \o WithoutUnresolved(Tail(actions))

\* C11: a key action with an unresolved key name is skipped: execute() never
\* fails at it, executing it injects nothing (at most its settle delay is
\* slept), and a run that returns Ok has issued what the sequence without
\* the unresolved actions issues.
C11_UnresolvedKeySkipped ==
    [][/\ ExecuteActionErr => ~Unresolved(macro_def[1].actions[idx])
       /\ ExecuteActionOk /\ Unresolved(macro_def[1].actions[idx]) =>
             \A i \in (Len(out) + 1)..Len(out') : out'[i].op = "sleep"
       /\ pc' = "ret" /\ result' = "Ok"
          /\ macro_def[1].cycle_mode.mode \in {"Once", "Count"} =>
             out' = ClaimedOutput([macro_def[1] EXCEPT
                                     !.actions = WithoutUnresolved(@)])]_vars

\* C11 witness: Mixed, whose first key name F13 does not resolve, has
\* returned Ok after two passes that start with the settle delay of the
\* skipped action and inject no key for it.
C11_Witness ==
    /\ pc = "ret"
    /\ result = "Ok"
    /\ macro_def[1].actions = Mixed
    /\ Len(out) = 10
    /\ out[1] = [op |-> "sleep", ms |-> 5]
    /\ out[2].op = "button"

\* C12: a failure to create the input-simulation context does not stop the
\* dispatch loop: the loop thread never panics.
C12_SetupFailureKeepsLoopRunning == proc # "panicked"

\* A start() call on the recording session, whichever branch it takes.
StartCalled == StartRecording \/ StartRecordingIgnored

\* C13: start() while the session is Recording is a no-op: no listener
\* thread, hook or channel is created, and the actions captured but not yet
\* polled stay in the channel of the same receiver.
C13_StartWhileRecordingNoOp ==
    [][StartCalled /\ is_recording =>
          UNCHANGED <<is_recording, receiver, stop_signal, chan, stop_chan,
                      listener, hooks>>]_vars

\* C13 witness: start() was ignored while the session was Recording with
\* its hook installed and captured actions waiting to be polled.
C13_Witness ==
    /\ last_call.op = "start_recording"
    /\ last_call.log = "Already recording"
    /\ is_recording
    /\ receiver \in hooks
    /\ chan # <<>>

\* C14: stop() while Idle returns an empty sequence, leaves the session
\* Idle, and neither step of it spawns a listener or installs a hook.
C14_StopIdempotent ==
    [][/\ StopRecordingCall /\ ~is_recording =>
             ~is_recording' /\ UNCHANGED <<listener, hooks, stop_chan, receiver>>
       /\ StopRecordingReturn /\ ~was_recording =>
             /\ last_call'.ret = <<>>
             /\ ~is_recording' /\ receiver' = 0
             /\ UNCHANGED <<listener, hooks>>]_vars

\* C14 witness: a stop() that returned captured actions has been followed
\* by a second stop(), called while Idle, that returned nothing.
C14_Witness ==
    /\ gui_pc = "idle"
    /\ last_call.op = "stop_recording"
    /\ ~was_recording
    /\ last_call.ret = <<>>
    /\ returned # <<>>
    /\ ~is_recording

\* No two consecutive elements of the sequence are Delay actions.
NoConsecutiveDelays(actions) ==
    \A i \in 1..(Len(actions) - 1) :
        ~(actions[i].type = "Delay" /\ actions[i + 1].type = "Delay")

\* C15: coalescing law. The sequence stop() returns never contains two
\* consecutive Delay actions, whatever raw sequence was captured.
C15_NoConsecutiveDelays ==
    last_call.op = "stop_recording" => NoConsecutiveDelays(last_call.ret)

\* C15 witness: stop() has returned a sequence in which the Delay of 60 ms
\* is the sum of the consecutive raw delays of 20 and 40 ms.
C15_Witness ==
    /\ last_call.op = "stop_recording"
    /\ last_call.ret = <<KeyPress("A", 0), Delay(60), KeyRelease("A", 0)>>

\* C16: stopping is synchronous and loses nothing: when stop() returns for
\* a Recording session the session's hook is already uninstalled, and every
\* key action a hook captures goes into the channel the session drains.
C16_StopSynchronousNoLoss ==
    [][/\ StopRecordingReturn /\ was_recording => receiver \notin hooks
       /\ captured' # captured => chan' # chan]_vars

\* C17: when the OS denies the hook installation the start fails: the
\* session whose listener failed to install its hook is not Recording.
C17_HookInstallFailureFailsStart ==
    \A k \in Threads :
        listener[k] = "failed" /\ stop_signal = k => ~is_recording

\* C18: at most one low-level keyboard hook is active at any time, whether
\* installed by the recording session or through the hook module.
C18_AtMostOneHook ==
    /\ Cardinality(hooks) <= 1
    /\ Cardinality(keyboard_hooks) <= 1

\* A hook callback can run to its end for every event, whatever the state
\* of its channel: it never waits.
CallbacksNeverWait ==
    /\ \A k \in hooks, e \in KeyEvents, delay_ms \in Elapsed :
          ENABLED keyboard_hook_proc(k, e, delay_ms)
    /\ \A e \in KeyEvents : ENABLED keyboard_proc(e)
    /\ \A e \in MouseEvents : ENABLED mouse_proc(e)

\* C19: a hook callback never consumes an event: every invocation passes
\* the event it was called with, unmodified, to the next hook, and no
\* callback ever waits for the consumer of its channel.
C19_HookAlwaysForwards ==
    [][/\ CallbacksNeverWait
       /\ hook_call' # hook_call => hook_call'.next = hook_call'.event]_vars

\* C19 witness: the callbacks have been called with the channel full, with
\* the receiver dropped and with a message that is no key message, and
\* passed the event on.
C19_Witness ==
    /\ hook_call.proc = "keyboard_proc"
    /\ hook_call.event.msg = "WM_CHAR"
    /\ hook_call.next = hook_call.event
    /\ Len(keyboard_chan) = BufferSize
    /\ hook_call.sent = <<>>

C21_SelectMacroRejectedWhileRecording ==
    [][(last_message'.type = "SelectMacro" /\ macro_editor_state.is_recording)
       => macro_editor_state' =
              [macro_editor_state EXCEPT !.show_recording_warning = TRUE]]_vars

\* C21: while recording into one macro, a SelectMacro for another existing
\* macro was handled: the warning is shown and the selection has not moved.
C21_Witness ==
    /\ last_message.type = "SelectMacro"
    /\ macro_editor_state.is_recording
    /\ macro_editor_state.show_recording_warning
    /\ last_message.index < Len(macro_editor_state.macros)
    /\ macro_editor_state.selected_macro # <<>>
    /\ macro_editor_state.selected_macro # <<last_message.index>>
    /\ macro_editor_state.selected_macro[1] < Len(macro_editor_state.macros)

\* C22: a StartRecording command handled with no macro selected appends
\* exactly one new, empty macro named "Macro {n+1}", n being the number of
\* macros before the command, selects it and sets the recording flag; with no
\* macro before it the set becomes the single macro "Macro 1". The macros
\* that existed are not modified.
C22_StartRecordingCreatesMacro ==
    [][(last_message'.type = "StartRecording"
        /\ macro_editor_state.selected_macro = <<>>)
       => LET n == Len(macro_editor_state.macros)
              created == MacroDefinition("Macro " \o ToString(n + 1), TRUE, <<>>, <<>>, Once)
          IN /\ macro_editor_state'.macros = Append(macro_editor_state.macros, created)
             /\ macro_editor_state'.selected_macro = <<n>>
             /\ macro_editor_state'.is_recording
             /\ n = 0 => macro_editor_state'.macros[1].name = "Macro 1"]_vars

\* C22: StartRecording was handled with nothing selected in an editor without
\* macros: one macro, "Macro 1", exists, it is selected and being recorded.
C22_Witness ==
    /\ last_message.type = "StartRecording"
    /\ session.open /\ session.macro = <<>>
    /\ Len(macro_editor_state.macros) = 1
    /\ macro_editor_state.macros[1].name = "Macro 1"
    /\ macro_editor_state.macros[1].actions = <<>>
    /\ macro_editor_state.selected_macro = <<0>>
    /\ macro_editor_state.is_recording

\* The editor state handles a command of the recording session: the action
\* lists of all macros but the selected one stay as they are, and no macro is
\* added or removed.
OtherMacrosKept ==
    /\ Len(macro_editor_state'.macros) = Len(macro_editor_state.macros)
    /\ \A j \in 1..Len(macro_editor_state.macros) :
           j # macro_editor_state.selected_macro[1] + 1
           => macro_editor_state'.macros[j].actions = macro_editor_state.macros[j].actions

\* C23: a StartRecording command handled with an existing macro selected
\* empties that macro's action list; when the session then consists of
\* RecordedAction commands only and ends with StopRecording, the macro's
\* actions are exactly the actions delivered in the session, in order. No
\* command of the session changes the action list of another macro.
C23_RecordingOverwritesSelected ==
    /\ [][(last_message'.type = "StartRecording" /\ HasCurrent(macro_editor_state))
          => /\ current_macro(macro_editor_state')[1].actions = <<>>
             /\ macro_editor_state'.selected_macro = macro_editor_state.selected_macro
             /\ OtherMacrosKept]_vars
    /\ [][(last_message'.type \in {"RecordedAction", "StopRecording"}
           /\ HasCurrent(macro_editor_state))
          => OtherMacrosKept]_vars
    /\ []((last_message.type = "StopRecording" /\ session.macro # <<>>)
          => /\ macro_editor_state.selected_macro = session.macro
             /\ current_macro(macro_editor_state)[1].actions = session.recorded)

\* C23: a session recorded into the first of two macros has ended: the macro
\* held a KeyPress before, it now holds the two actions of the session, and
\* the second macro holds what it held when the editor was opened.
C23_Witness ==
    /\ last_message.type = "StopRecording"
    /\ ~macro_editor_state.is_recording
    /\ session.macro = <<0>>
    /\ session.recorded = <<KeyRelease("A", 0), KeyPress("A", 0)>>
    /\ Len(macro_editor_state.macros) = 2
    /\ macro_editor_state.macros[1].actions = session.recorded
    /\ macro_editor_state.macros[2].actions = <<Delay(100), KeyRelease("A", 0)>>

\* C24: a RecordedAction command handled while the recording flag is false
\* leaves the whole editor state as it was; handled while the flag is true it
\* appends the action to the end of the selected macro's action list and
\* changes nothing else (with no selected macro there is no list to append
\* to, and nothing changes).
C24_RecordedActionOnlyWhileRecording ==
    [][last_message'.type = "RecordedAction"
       => macro_editor_state' =
              IF macro_editor_state.is_recording /\ HasCurrent(macro_editor_state)
              THEN [macro_editor_state EXCEPT
                      !.macros[macro_editor_state.selected_macro[1] + 1].actions =
                          Append(@, last_message'.action)]
              ELSE macro_editor_state]_vars

\* C24: a RecordedAction arrived after the session that filled the selected
\* macro had been stopped: the macro still holds what the session delivered.
C24_Witness ==
    /\ last_message.type = "RecordedAction"
    /\ ~macro_editor_state.is_recording
    /\ HasCurrent(macro_editor_state)
    /\ current_macro(macro_editor_state)[1].actions = <<KeyPress("A", 0)>>
    /\ last_message.action = KeyRelease("A", 0)

\* C25: DeleteAction with action index i selected in a macro of n actions
\* (i < n) removes exactly the action at index i: the actions before it stay
\* in place and the ones after it move up by one.  The selection becomes
\* min(max(i-1, 0), n-2) when n > 1 and none when n = 1.
C25_DeleteActionClamps ==
    [][(/\ last_message'.type = "DeleteAction"
        /\ HasCurrent(macro_editor_state)
        /\ macro_editor_state.selected_action # <<>>
        /\ macro_editor_state.selected_action[1]
               < Len(current_macro(macro_editor_state)[1].actions))
       => LET i == macro_editor_state.selected_action[1]
              old == current_macro(macro_editor_state)[1].actions
              n == Len(old)
              new == current_macro(macro_editor_state')[1].actions
              lower == IF i - 1 > 0 THEN i - 1 ELSE 0
          IN /\ macro_editor_state'.selected_macro = macro_editor_state.selected_macro
             /\ Len(new) = n - 1
             /\ \A k \in 1..(n - 1) : new[k] = IF k <= i THEN old[k] ELSE old[k + 1]
             /\ macro_editor_state'.selected_action =
                    IF n > 1
                    THEN <<IF lower < n - 2 THEN lower ELSE n - 2>>
                    ELSE <<>>]_vars

\* C25: the last of three actions was deleted: the two before it remain and
\* the selection moved to the new last row.
C25_Witness ==
    /\ last_message.type = "DeleteAction"
    /\ HasCurrent(macro_editor_state)
    /\ current_macro(macro_editor_state)[1].actions = <<KeyPress("A", 0), Delay(100)>>
    /\ macro_editor_state.selected_action = <<1>>

C27_InsertAfterCursor ==
    [][(/\ last_message'.type \in {"InsertMouseAfter", "InsertXY", "ConfirmInsertXY",
                                    "InsertDelay", "ConfirmInsertDelay"}
        /\ HasCurrent(macro_editor_state)
        /\ macro_editor_state.selected_action # <<>>
               => macro_editor_state.selected_action[1]
                      < Len(current_macro(macro_editor_state)[1].actions))
       => LET old == current_macro(macro_editor_state)[1].actions
              n == Len(old)
              new == current_macro(macro_editor_state')[1].actions
              at == IF macro_editor_state.selected_action # <<>>
                    THEN macro_editor_state.selected_action[1] + 1
                    ELSE n
          IN /\ Len(new) = n + 1
             /\ \A k \in 1..at : new[k] = old[k]
             /\ \A k \in (at + 1)..n : new[k + 1] = old[k]]_vars

\* The uppercase form of each key text the shortcut field is given.
ShortcutKeyUppercase(k) ==
    CASE k = "a" -> "A"
      [] k = "f1" -> "F1"
      [] k = "" -> ""

\* C28: each shortcut edit command (ToggleCtrl, ToggleAlt, ToggleShift,
\* ToggleWin, ShortcutKeyChanged) on a selected macro leaves the macro with a
\* shortcut: the one it had, or the default one (no modifier, empty key) if
\* it had none, with only the addressed field changed; after
\* ShortcutKeyChanged(k) the stored key is the uppercase form of k.  Nothing
\* else of the macro list changes.
C28_ShortcutEditsOneField ==
    [][(/\ last_message'.type \in {"ToggleCtrl", "ToggleAlt", "ToggleShift",
                                   "ToggleWin", "ShortcutKeyChanged"}
        /\ HasCurrent(macro_editor_state))
       => LET m == last_message'
              at == macro_editor_state.selected_macro[1] + 1
              old == macro_editor_state.macros[at].shortcut
              base == IF old = <<>>
                      THEN [ctrl |-> FALSE, alt |-> FALSE, shift |-> FALSE,
                            win |-> FALSE, key |-> ""]
                      ELSE old[1]
              expected ==
                  [ctrl |-> IF m.type = "ToggleCtrl" THEN m.enabled ELSE base.ctrl,
                   alt |-> IF m.type = "ToggleAlt" THEN m.enabled ELSE base.alt,
                   shift |-> IF m.type = "ToggleShift" THEN m.enabled ELSE base.shift,
                   win |-> IF m.type = "ToggleWin" THEN m.enabled ELSE base.win,
                   key |-> IF m.type = "ShortcutKeyChanged"
                           THEN ShortcutKeyUppercase(m.key) ELSE base.key]
          IN macro_editor_state'.macros =
                 [macro_editor_state.macros EXCEPT ![at].shortcut = <<expected>>]]_vars

\* C28: a lowercase key was typed for a macro that had no shortcut: the
\* macro now has the default shortcut with the key in uppercase.
C28_Witness ==
    /\ last_message = [type |-> "ShortcutKeyChanged", key |-> "f1"]
    /\ HasCurrent(macro_editor_state)
    /\ current_macro(macro_editor_state)[1].shortcut =
           <<[ctrl |-> FALSE, alt |-> FALSE, shift |-> FALSE, win |-> FALSE,
              key |-> "F1"]>>

\* What each text typed into the repeat-count field is as an unsigned 32-bit
\* decimal count: <<n>> when it is one, <<>> when it is not (empty, a letter,
\* a minus sign, a leading space, 4294967296).
CountOfText(text) ==
    CASE text = <<"3">> -> <<3>>
      [] text = <<"0">> -> <<0>>
      [] text = <<"+", "2">> -> <<2>>
      [] OTHER -> <<>>

\* C29: CycleCountChanged(text) on a selected macro, with text that is no
\* unsigned 32-bit count, leaves the macro's repeat policy (and the rest of
\* the macro list) exactly as it was; with text that is the count n the
\* policy becomes Count(n).
C29_BadCountKeepsPolicy ==
    [][(/\ last_message'.type = "CycleCountChanged"
        /\ HasCurrent(macro_editor_state))
       => LET n == CountOfText(last_message'.count)
              at == macro_editor_state.selected_macro[1] + 1
          IN macro_editor_state'.macros =
                 IF n = <<>>
                 THEN macro_editor_state.macros
                 ELSE [macro_editor_state.macros EXCEPT ![at].cycle_mode = Count(n[1])]]_vars

\* C29: a count one past the largest 32-bit value was typed for a macro
\* that repeats 12 times: it still repeats 12 times.
C29_Witness ==
    /\ last_message.type = "CycleCountChanged"
    /\ last_message.count = <<"4", "2", "9", "4", "9", "6", "7", "2", "9", "6">>
    /\ HasCurrent(macro_editor_state)
    /\ current_macro(macro_editor_state)[1].cycle_mode = Count(12)

\* C30: ContextMenuDelete dispatches on the target the context menu was
\* opened for: with a macro-list target the editor is left as the macro
\* delete command leaves it (one macro fewer when the selected macro
\* exists), with an action-list target as the action delete command leaves
\* it (the same macros), with no target nothing is deleted; in all three
\* cases the context menu is closed afterwards.
C30_ContextMenuDeleteDispatch ==
    [][last_message'.type = "ContextMenuDelete"
       => LET s == macro_editor_state
              target == last_message'.target
              deleted == CASE target.type = "MacroList" -> update_DeleteMacro(s)
                           [] target.type = "KeysList" -> update_DeleteAction(s)
                           [] target.type = "None" -> s
          IN /\ macro_editor_state' = [deleted EXCEPT !.context_menu = [type |-> "None"]]
             /\ target.type = "None" => macro_editor_state'.macros = s.macros
             /\ target.type = "KeysList" => Len(macro_editor_state'.macros) = Len(s.macros)
             /\ target.type = "MacroList" =>
                    Len(macro_editor_state'.macros) =
                        IF HasCurrent(s) THEN Len(s.macros) - 1 ELSE Len(s.macros)]_vars

\* C30: the delete entry of a macro row's context menu was chosen with the
\* first of two macros selected: the second macro is the only one left and
\* the menu is closed.
C30_Witness ==
    /\ last_message.type = "ContextMenuDelete"
    /\ last_message.target.type = "MacroList"
    /\ Len(macro_editor_state.macros) = 1
    /\ macro_editor_state.macros[1].name = "Macro 2"
    /\ macro_editor_state.selected_macro = <<0>>
    /\ macro_editor_state.context_menu = [type |-> "None"]

\* C31: validate() on a macro succeeds if and only if the name is non-empty
\* and at most 50 characters long, the action list is non-empty, and the
\* shortcut is absent or has at least one modifier and a non-empty key.
C31_ValidateIff ==
    validate_call.ret # "none"
        => LET m == validate_call.macro[1]
           IN validate_call.ret = "Ok"
                  <=> /\ Len(m.name) > 0
                      /\ Len(m.name) <= 50
                      /\ Len(m.actions) > 0
                      /\ \/ m.shortcut = <<>>
                         \/ /\ \/ m.shortcut[1].ctrl
                               \/ m.shortcut[1].alt
                               \/ m.shortcut[1].shift
                               \/ m.shortcut[1].win
                            /\ m.shortcut[1].key # ""

\* C32: a macro validate() rejects (empty name, empty action list, shortcut
\* without a modifier or without a key) is never written to the profile
\* store by the save operation.
C32_InvalidNeverPersisted ==
    \A d \in 1..Len(disk) : \A p \in 1..Len(disk[d]) :
        \A i \in 1..Len(disk[d][p].macros) :
            LET m == disk[d][p].macros[i]
            IN /\ m.name # ""
               /\ m.actions # <<>>
               /\ m.shortcut = <<>> \/ is_valid(m.shortcut[1])

\* C33: while recording, for each captured key event the hook sends a Delay
\* immediately before the key action if and only if more than 10 ms have
\* elapsed since the previous captured event (since the start for the first
\* one), the Delay's value being the elapsed time; the key action carries a
\* delay of 0; and the time cursor is reset to the time of the event.
C33_DelayIffOverThreshold ==
    [][(/\ hook_call' # hook_call
        /\ hook_call'.proc = "keyboard_hook_proc"
        /\ hook_call'.event.code = HC_ACTION
        /\ hook_call'.event.msg \in {"WM_KEYDOWN", "WM_SYSKEYDOWN", "WM_KEYUP", "WM_SYSKEYUP"})
       => LET elapsed == now - HOOK_LAST_TIME
              sent == hook_call'.sent
              key == sent[Len(sent)]
          IN /\ Len(sent) = IF elapsed > 10 THEN 2 ELSE 1
             /\ elapsed > 10 => sent[1] = [type |-> "Delay", ms |-> elapsed]
             /\ key.type = IF hook_call'.event.msg \in {"WM_KEYDOWN", "WM_SYSKEYDOWN"}
                           THEN "KeyPress" ELSE "KeyRelease"
             /\ key.delay_ms = 0
             /\ HOOK_LAST_TIME' = now]_vars

\* C33: two key events were captured, the first 10 ms after the start with
\* no Delay, the second 11 ms later with a Delay of 11 before it.
C33_Witness ==
    /\ hook_call.proc = "keyboard_hook_proc"
    /\ chan = <<KeyPress("A", 0), Delay(11), KeyRelease("A", 0)>>
    /\ HOOK_LAST_TIME = 21
    /\ now = 21

\* The key actions of a sequence of actions, in order.
RECURSIVE KeyActionsOf(_)
KeyActionsOf(actions) ==
    IF actions = <<>> THEN <<>>
    ELSE (IF Head(actions).type \in {"KeyPress", "KeyRelease"}
          THEN <<Head(actions)>> ELSE <<>>) \o KeyActionsOf(Tail(actions))

\* s can be obtained from t by leaving elements out.
RECURSIVE IsSubsequence(_, _)
IsSubsequence(s, t) ==
    IF s = <<>> THEN TRUE
    ELSE IF t = <<>> THEN FALSE
    ELSE IF Head(s) = Head(t) THEN IsSubsequence(Tail(s), Tail(t))
    ELSE IsSubsequence(s, Tail(t))

\* C34: poll() never waits and drains: whenever the caller is not inside
\* stop() it can run, it returns exactly what the hook pushed into the
\* session's channel since the previous drain, in order (nothing without a
\* receiver), and leaves the channel empty.  Across every interleaving of
\* hook pushes, poll() and stop() calls, the key actions handed to the
\* caller are, in order and each at most once, key actions that were
\* captured, and what is still in the channel comes after them.
C34_PollDrainsOnce ==
    /\ [](gui_pc = "idle" => ENABLED PollActions)
    /\ [][PollActions =>
             /\ last_call'.ret = IF receiver # 0 THEN chan ELSE <<>>
             /\ returned' = returned \o last_call'.ret
             /\ chan' = <<>>]_vars
    /\ [](IsSubsequence(KeyActionsOf(returned) \o KeyActionsOf(chan), captured))

\* C34: a second poll() returned the key release captured after the first
\* poll() had returned the key press.
C34_Witness ==
    /\ last_call.op = "poll_actions"
    /\ last_call.ret = <<Delay(30), KeyRelease("A", 0)>>
    /\ returned = <<KeyPress("A", 0), Delay(30), KeyRelease("A", 0)>>
    /\ captured = <<KeyPress("A", 0), KeyRelease("A", 0)>>

\* The names of the macros, in list order.
MacroNamesOf(s) == [i \in 1..Len(s.macros) |-> s.macros[i].name]

\* C35: the edit target is stable during recording: between the
\* StartRecording that set the recording flag and the StopRecording that
\* clears it, no editor command changes selected_macro or the macro it
\* denotes (the macro list keeps its macros in their places).
C35_EditTargetStable ==
    [][(macro_editor_state.is_recording /\ macro_editor_state'.is_recording)
       => /\ macro_editor_state'.selected_macro = macro_editor_state.selected_macro
          /\ MacroNamesOf(macro_editor_state') = MacroNamesOf(macro_editor_state)]_vars

\* C36: ContextMenuDelete deletes the row the context menu was opened on:
\* with target MacroList{macro_index: i} (i a macro of the list) the macro
\* removed is the one at index i, and with target KeysList{action_index: j}
\* (j an action of the selected macro) the action removed is the one at
\* index j of the selected macro, whatever selected_macro and
\* selected_action are.
C36_ContextMenuDeletesTargetRow ==
    [][last_message'.type = "ContextMenuDelete"
       => LET s == macro_editor_state
              target == last_message'.target
          IN /\ (target.type = "MacroList" /\ target.macro_index < Len(s.macros))
                    => macro_editor_state'.macros =
                           SubSeq(s.macros, 1, target.macro_index)
                               \o SubSeq(s.macros, target.macro_index + 2, Len(s.macros))
             /\ (/\ target.type = "KeysList"
                 /\ HasCurrent(s)
                 /\ target.action_index < Len(current_macro(s)[1].actions))
                    => LET old == current_macro(s)[1].actions
                       IN /\ HasCurrent(macro_editor_state')
                          /\ current_macro(macro_editor_state')[1].actions =
                                 SubSeq(old, 1, target.action_index)
                                     \o SubSeq(old, target.action_index + 2, Len(old))]_vars

C38_EndToEndRecording ==
    [][(HostStopRecordingReturn /\ listener[2] = "unspawned"
            /\ HasCurrent(macro_editor_state'))
          => LET actions == current_macro(macro_editor_state')[1].actions
             IN /\ KeyActionsOf(actions) = captured'
                /\ NoConsecutiveDelays(actions)
                /\ \A i \in 1..Len(actions) :
                       actions[i].type = "Delay" => actions[i].ms > 50]_vars

\* C39: the editor's update() is total: whatever commands were handled
\* before (SelectMacro and SelectAction with any index included), no command
\* makes update() panic.
C39_UpdateTotal == settings_proc # "panicked"

\* C40: InputListener::stop() terminates: once stop() has set running to
\* false, the message loop thread ends and the join returns, whether or not
\* a message arrives for that thread.
C40_StopTerminates == (stop_pc \in {"uninstall", "join"}) ~> (stop_pc = "returned")

====
